---- MODULE Spec2Model ----
(***************************************************************************)
(* Homevolt4HA: the tiered polling coordinator                             *)
(* (custom_components/homevolt/coordinator.py) on top of the transport     *)
(* client's retry loop (custom_components/homevolt/api.py).                *)
(*                                                                         *)
(* One tick (_async_update_data) is a sequence of steps, one per await     *)
(* point: telemetry, status, error_report, node inventory, one step per    *)
(* qualifying sensor, schedule, then the event comparison and the return.  *)
(* A Python object is a record with a field ref = <<tier, tick>> naming    *)
(* the allocation (the tier and the tick that fetched it): two values are  *)
(* the same object exactly when their refs are equal.                      *)
(***************************************************************************)
EXTENDS Integers, Sequences, FiniteSets, TLC

VARIABLES
    poll_count,     \* HomevoltCoordinator._poll_count
    data,           \* DataUpdateCoordinator.data: the last stored snapshot
    combined,       \* the local `combined` of the tick in flight
    pc,             \* position of the tick in flight, "idle" between ticks
    pending,        \* sensors the node-metrics loop has still to visit
    outcome,        \* how the latest tick ended
    requested,      \* transport calls made so far in the latest tick, in order
    fired,          \* events fired so far in the latest tick, in order
    last_call,      \* the latest transport call of the latest tick
    data_at_start,  \* value of data when the latest tick started
    ticks,          \* number of tick invocations so far
    faults,         \* failed transport calls and abandoned ticks so far
    fetch_count,    \* requests per endpoint, kept while faults = 0
    setup,          \* async_setup_entry: its position and what it did to the entry
    arg,            \* input of a function that is run on its own
    ret             \* what that function returned or raised

vars == <<poll_count, data, combined, pc, pending, outcome, requested, fired,
          last_call, data_at_start, ticks, faults, fetch_count, setup, arg, ret>>

\* The variables of the coordinator and of its ticks.
tick_vars == <<poll_count, data, combined, pc, pending, outcome, requested, fired,
               last_call, data_at_start, ticks, faults, fetch_count>>

(***************************************************************************)
(* Bounds of the model.                                                    *)
(***************************************************************************)
MaxTicks == 21
MaxFaults == 2
MaxEntries == 3
MaxTs == 3
MaxKeys == 2
MaxScheduledTicks == 5

(***************************************************************************)
(* Program constants.                                                      *)
(***************************************************************************)
MAX_RETRIES == 3
BackoffBaseOfRetries == MAX_RETRIES
BACKOFF_BASE == 2
ERROR_REPORT_POLL_INTERVAL == 4
NODES_POLL_INTERVAL == 10
StatusIntervalOfErrorReport == ERROR_REPORT_POLL_INTERVAL
STATUS_POLL_INTERVAL == 10
SCHEDULE_POLL_INTERVAL == 10

RETRY_STATUS_CODES == {"502", "503", "504"}

\* What one HTTP attempt can meet: a status line, or an exception of the
\* session (aiohttp.ClientConnectionError, asyncio.TimeoutError).
ConnectionExceptions == {"ClientConnectionError", "TimeoutError"}
ErrorStatuses == {"404", "500"}
Responses == {"200", "401"} \cup ErrorStatuses \cup RETRY_STATUS_CODES
                 \cup ConnectionExceptions

Endpoints == {"ems", "status", "error_report", "nodes", "node_metrics", "schedule"}

(***************************************************************************)
(* api.py: HomevoltApiClient._request, as a function of the responses the  *)
(* device gives to the successive attempts.  The result names the          *)
(* exception raised ("ok" for a returned payload), the number of attempts  *)
(* made and the sleeps issued, in order.                                   *)
(***************************************************************************)
RECURSIVE RequestLoop(_, _, _, _)
RequestLoop(resps, attempt, last_error, sleeps) ==
    IF attempt >= MAX_RETRIES
    THEN [result   |-> IF last_error # "None" THEN last_error ELSE "HomevoltApiError",
          attempts |-> attempt,
          sleeps   |-> sleeps]
    ELSE LET resp == resps[attempt + 1] IN
         IF resp \in ConnectionExceptions
         THEN IF attempt < MAX_RETRIES - 1
              THEN RequestLoop(resps, attempt + 1, "HomevoltConnectionError",
                               Append(sleeps, BACKOFF_BASE ^ (attempt + 1)))
              ELSE [result   |-> "HomevoltConnectionError",
                    attempts |-> attempt + 1,
                    sleeps   |-> sleeps]
         ELSE IF resp = "401"
         THEN [result |-> "HomevoltAuthError", attempts |-> attempt + 1, sleeps |-> sleeps]
         ELSE IF resp \in RETRY_STATUS_CODES
         THEN IF attempt < MAX_RETRIES - 1
              THEN RequestLoop(resps, attempt + 1, "HomevoltApiError",
                               Append(sleeps, BACKOFF_BASE ^ (attempt + 1)))
              ELSE [result   |-> "HomevoltApiError",
                    attempts |-> attempt + 1,
                    sleeps   |-> sleeps]
         ELSE IF resp \in ErrorStatuses
         THEN [result |-> "ClientResponseError", attempts |-> attempt + 1, sleeps |-> sleeps]
         ELSE [result |-> "ok", attempts |-> attempt + 1, sleeps |-> sleeps]

RequestRetryingAuth(resps) ==
    RequestLoop([i \in DOMAIN resps |-> IF resps[i] = "401" THEN "503" ELSE resps[i]],
                0, "None", <<>>)

Request(resps) == RequestLoop(resps, 0, "None", <<>>)

\* The responses a call consumed: one per attempt made.
Consumed(resps) == SubSeq(resps, 1, Request(resps).attempts)

\* Attempt-response sequences are given as far as a call consumes them.
AttemptSeqs(R) == { Consumed(s) : s \in [1..MAX_RETRIES -> R] }

\* The device behaviours the coordinator is run against: every result of a
\* call, reached on the first attempt and after retries.
DeviceBehaviours ==
    { <<"200">>,
      <<"503", "200">>,
      <<"401">>,
      <<"503", "503", "503">>,
      <<"ClientConnectionError", "ClientConnectionError", "ClientConnectionError">>,
      <<"503", "502", "TimeoutError">>,
      <<"404">>,
      <<"503", "500">> }

\* api.py: async_get_ems_data, async_get_status, async_get_error_report:
\* one _request each, the payload decoded on success.
SourceEndpoints == {"ems", "status", "error_report"}
ClientGetWrappingStatus(resps) ==
    [Request(resps) EXCEPT
        !.result = IF @ = "ClientResponseError" THEN "HomevoltApiError" ELSE @]

ClientGet(resps) == Request(resps)

\* async_get_nodes, async_get_node_metrics, async_get_schedule: the
\* coordinator calls them, each is one call of the transport client.
ClientGetOther(resps) == Request(resps)

ClientCall(endpoint, resps) ==
    IF endpoint \in SourceEndpoints THEN ClientGet(resps) ELSE ClientGetOther(resps)

(***************************************************************************)
(* models.py: the values.                                                  *)
(***************************************************************************)
None == [ref |-> <<"None", 0>>]

\* SensorData, the two fields the coordinator reads.
Sensor(euid, node_id) == [euid |-> euid, node_id |-> node_id]

SensorsFull ==
    << Sensor("a1b2c3d4e5f60001", 2),
       Sensor("0000000000000000", 3),
       Sensor("", 4),
       Sensor("a1b2c3d4e5f60002", 0),
       Sensor("a1b2c3d4e5f60003", 5) >>
SensorsOne == << Sensor("a1b2c3d4e5f60003", 5) >>

\* HomevoltEmsResponse: aggregated.ems_data.{alarm,warning,info}_str, sensors.
Ems(alarm, warning, info, sensors) ==
    [alarm_str |-> alarm, warning_str |-> warning, info_str |-> info,
     sensors |-> sensors]

EmsPayloads ==
    { Ems(<<>>, <<>>, <<>>, SensorsFull),
      Ems(<<"BMS_OVER_VOLTAGE">>, <<>>, <<>>, SensorsFull),
      Ems(<<>>, <<"LOW_SOC">>, <<"GRID_CHARGING">>, SensorsOne),
      Ems(<<>>, <<"LOW_SOC">>, <<>>, SensorsOne) }

\* A freshly decoded object: allocated by `tier` in tick `tick`.
NewObj(tier, tick) == [ref |-> <<tier, tick>>]
NewEms(tick, payload) == [ref |-> <<"ems", tick>>, val |-> payload]
NewMetrics(node_id, tick) == [ref |-> <<"metrics", node_id, tick>>]

\* HomevoltData(ems=ems): the fields models.py declares, with their defaults.
\* error_report defaults to a fresh empty list.
HomevoltDataDeclared(ems, tick) ==
    [ems          |-> ems,
     status       |-> None,
     error_report |-> [ref |-> <<"error_report_default", tick>>]]

HomevoltDataSharedDefaults(tick) ==
    [nodes        |-> [ref |-> <<"nodes_default", 0>>],
     node_metrics |-> [ref |-> <<"node_metrics", 0>>, map |-> <<>>],
     schedule     |-> None]

\* The fields the coordinator assigns beyond those: nodes, node_metrics (a
\* fresh empty dict per instance) and schedule (null).
HomevoltDataOther(tick) ==
    [nodes        |-> [ref |-> <<"nodes_default", tick>>],
     node_metrics |-> [ref |-> <<"node_metrics", tick>>, map |-> <<>>],
     schedule     |-> None]

HomevoltData(ems, tick) == HomevoltDataDeclared(ems, tick) @@ HomevoltDataOther(tick)

(***************************************************************************)
(* coordinator.py: HomevoltCoordinator.                                    *)
(***************************************************************************)
NoCall == [endpoint |-> "none", node_id |-> 0, resps |-> <<>>,
           result |-> "none", attempts |-> 0, sleeps |-> <<>>]
NoCounts == [e \in Endpoints |-> 0]

\* No function is being run on its own.
NoArg == [of |-> "none"]
NoRet == [of |-> "none"]

\* The config entry before async_setup_entry has run.
NotSetUp == [pc |-> "none", runtime_data |-> "unset", forwarded |-> FALSE,
             listener |-> FALSE, result |-> "none"]

\* __init__, and DataUpdateCoordinator's data = None.
InitCoordinator ==
    /\ poll_count = 0
    /\ data = None
    /\ combined = None
    /\ pc = "idle"
    /\ pending = <<>>
    /\ outcome = "none"
    /\ requested = <<>>
    /\ fired = <<>>
    /\ last_call = NoCall
    /\ data_at_start = None
    /\ ticks = 0
    /\ faults = 0
    /\ fetch_count = NoCounts

Init ==
    /\ InitCoordinator
    /\ setup = NotSetUp
    /\ arg = NoArg
    /\ ret = NoRet

DueOnePastMultiple(period) == poll_count % period = 1 \/ data = None

DueAlways(period) == TRUE

DueOrPreviousTickAborted(period) ==
    IF data = None
    THEN TRUE
    ELSE poll_count % period = 0 \/ data.ems.ref[2] < poll_count - 1

\* `self._poll_count % INTERVAL == 0 or self.data is None`
Due(period) == poll_count % period = 0 \/ data = None

QualifiesWithoutNodeId(sensor) ==
    /\ sensor.euid # ""
    /\ sensor.euid # "0000000000000000"

\* `sensor.euid and sensor.euid != "0000000000000000" and sensor.node_id`
Qualifies(sensor) ==
    /\ sensor.euid # ""
    /\ sensor.euid # "0000000000000000"
    /\ sensor.node_id # 0

RECURSIVE Reversed(_)
Reversed(q) == IF q = <<>> THEN <<>> ELSE Append(Reversed(Tail(q)), Head(q))
QualifyingSensorsReversed(sensors) == Reversed(SelectSeq(sensors, Qualifies))

QualifyingSensorsAll(sensors) == sensors

\* The sensors the loop fetches metrics for, in the order of the list.
QualifyingSensors(sensors) == SelectSeq(sensors, Qualifies)

RaisedAuthAsUpdateFailed(exc) ==
    CASE exc = "HomevoltAuthError"       -> "UpdateFailed"
      [] exc = "HomevoltConnectionError" -> "UpdateFailed"
      [] OTHER                           -> exc

RaisedWrappingAnyError(exc) ==
    CASE exc = "HomevoltAuthError" -> "ConfigEntryAuthFailed"
      [] OTHER                     -> "UpdateFailed"

\* The except clauses that close the try block: what the tick raises when
\* `exc` reaches them.
Raised(exc) ==
    CASE exc = "HomevoltAuthError"       -> "ConfigEntryAuthFailed"
      [] exc = "HomevoltConnectionError" -> "UpdateFailed"
      [] OTHER                           -> exc

\* `self._poll_count += 1`
NextPollCount(n) == n + 1

CarriedNull(field) == None

CarriedCopy(field) == [data[field] EXCEPT !.ref = <<"copy", poll_count>>]

\* `combined.x = self.data.x`: the object of the previous snapshot itself.
Carried(field) == data[field]

\* Bookkeeping of one transport call.
Called(endpoint, node_id, resps, r) ==
    /\ requested' = Append(requested, [endpoint |-> endpoint, node_id |-> node_id,
                                       result |-> r.result])
    /\ last_call' = [endpoint |-> endpoint, node_id |-> node_id, resps |-> resps,
                     result |-> r.result, attempts |-> r.attempts, sleeps |-> r.sleeps]
    /\ r.result # "ok" => faults < MaxFaults
    /\ faults' = IF r.result = "ok" THEN faults ELSE faults + 1
    /\ fetch_count' = IF faults = 0 /\ r.result = "ok"
                      THEN [fetch_count EXCEPT ![endpoint] = @ + 1]
                      ELSE NoCounts

AbortStoring(exc) ==
    /\ pc' = "idle"
    /\ outcome' = Raised(exc)
    /\ data' = combined
    /\ combined' = None
    /\ pending' = <<>>
    /\ UNCHANGED <<poll_count, fired, data_at_start, ticks>>
    /\ UNCHANGED <<setup, arg, ret>>

AbortUncounted(exc) ==
    /\ pc' = "idle"
    /\ outcome' = Raised(exc)
    /\ poll_count' = poll_count - 1
    /\ combined' = None
    /\ pending' = <<>>
    /\ UNCHANGED <<data, fired, data_at_start, ticks>>
    /\ UNCHANGED <<setup, arg, ret>>

AbortTerminal(exc) ==
    /\ pc' = "stopped"
    /\ outcome' = Raised(exc)
    /\ combined' = None
    /\ pending' = <<>>
    /\ UNCHANGED <<poll_count, data, fired, data_at_start, ticks>>
    /\ UNCHANGED <<setup, arg, ret>>

\* An exception leaves the try block: the tick raises, `combined` is dropped
\* and nothing is stored.
Abort(exc) ==
    /\ pc' = "idle"
    /\ outcome' = Raised(exc)
    /\ combined' = None
    /\ pending' = <<>>
    /\ UNCHANGED <<poll_count, data, fired, data_at_start, ticks>>
    /\ UNCHANGED <<setup, arg, ret>>

ProceedPublishing(next, c, p) ==
    /\ pc' = next
    /\ combined' = c
    /\ data' = c
    /\ pending' = p
    /\ UNCHANGED <<poll_count, outcome, fired, data_at_start, ticks>>
    /\ UNCHANGED <<setup, arg, ret>>

\* The tick goes on to position `next` with `combined` updated.
Proceed(next, c, p) ==
    /\ pc' = next
    /\ combined' = c
    /\ pending' = p
    /\ UNCHANGED <<poll_count, data, outcome, fired, data_at_start, ticks>>
    /\ UNCHANGED <<setup, arg, ret>>

\* A step that makes no transport call.
NoCallMade == UNCHANGED <<requested, last_call, faults, fetch_count>>

\* The scheduler invokes _async_update_data: line 57.
TickStart ==
    /\ pc = "idle"
    /\ poll_count < MaxTicks
    /\ poll_count' = NextPollCount(poll_count)
    /\ ticks' = ticks + 1
    /\ pc' = "ems"
    /\ outcome' = "running"
    /\ data_at_start' = data
    /\ combined' = None
    /\ pending' = <<>>
    /\ requested' = <<>>
    /\ fired' = <<>>
    /\ last_call' = NoCall
    /\ UNCHANGED <<data, faults, fetch_count>>
    /\ UNCHANGED <<setup, arg, ret>>

FetchEmsFiring(D) ==
    /\ pc = "ems"
    /\ \E resps \in D, payload \in EmsPayloads :
         LET r == ClientCall("ems", resps)
             c == HomevoltData(NewEms(poll_count, payload), poll_count) IN
         /\ Called("ems", 0, resps, r)
         /\ IF r.result = "ok"
            THEN /\ pc' = "status"
                 /\ combined' = c
                 /\ pending' = <<>>
                 /\ fired' = IF data # None /\ data.ems.val.alarm_str # payload.alarm_str
                             THEN <<[type |-> "homevolt_alarm",
                                     previous |-> data.ems.val.alarm_str,
                                     current |-> payload.alarm_str]>>
                             ELSE <<>>
                 /\ UNCHANGED <<poll_count, data, outcome, data_at_start, ticks>>
                 /\ UNCHANGED <<setup, arg, ret>>
            ELSE Abort(r.result)

\* Lines 61-64: telemetry, always.
FetchEms(D) ==
    /\ pc = "ems"
    /\ \E resps \in D, payload \in EmsPayloads :
         LET r == ClientCall("ems", resps) IN
         /\ Called("ems", 0, resps, r)
         /\ IF r.result = "ok"
            THEN Proceed("status", HomevoltData(NewEms(poll_count, payload), poll_count), <<>>)
            ELSE Abort(r.result)

FetchStatusAbsorbing(D) ==
    /\ pc = "status"
    /\ Due(STATUS_POLL_INTERVAL)
    /\ \E resps \in D :
         LET r == ClientCall("status", resps) IN
         /\ Called("status", 0, resps, r)
         /\ Proceed("error_report",
                    IF r.result = "ok"
                    THEN [combined EXCEPT !.status = NewObj("status", poll_count)]
                    ELSE combined,
                    <<>>)

\* Lines 67-68.
FetchStatus(D) ==
    /\ pc = "status"
    /\ Due(STATUS_POLL_INTERVAL)
    /\ \E resps \in D :
         LET r == ClientCall("status", resps) IN
         /\ Called("status", 0, resps, r)
         /\ IF r.result = "ok"
            THEN Proceed("error_report",
                         [combined EXCEPT !.status = NewObj("status", poll_count)], <<>>)
            ELSE Abort(r.result)

\* Lines 69-70.
CarryStatus ==
    /\ pc = "status"
    /\ ~Due(STATUS_POLL_INTERVAL)
    /\ data # None
    /\ Proceed("error_report", [combined EXCEPT !.status = Carried("status")], <<>>)
    /\ NoCallMade

\* Lines 73-74.
FetchErrorReport(D) ==
    /\ pc = "error_report"
    /\ Due(ERROR_REPORT_POLL_INTERVAL)
    /\ \E resps \in D :
         LET r == ClientCall("error_report", resps) IN
         /\ Called("error_report", 0, resps, r)
         /\ IF r.result = "ok"
            THEN Proceed("nodes",
                         [combined EXCEPT !.error_report = NewObj("error_report", poll_count)],
                         <<>>)
            ELSE Abort(r.result)

\* Lines 75-76.
CarryErrorReport ==
    /\ pc = "error_report"
    /\ ~Due(ERROR_REPORT_POLL_INTERVAL)
    /\ data # None
    /\ Proceed("nodes", [combined EXCEPT !.error_report = Carried("error_report")], <<>>)
    /\ NoCallMade

\* Where the tick stands once the sensors in `p` are left to visit.
AfterSensors(p) == IF p = <<>> THEN "schedule" ELSE "node_metrics"

FetchNodesKeepingMetrics(D) ==
    /\ pc = "nodes"
    /\ Due(NODES_POLL_INTERVAL)
    /\ \E resps \in D :
         LET r == ClientCall("nodes", resps)
             p == QualifyingSensors(combined.ems.val.sensors) IN
         /\ Called("nodes", 0, resps, r)
         /\ IF r.result = "ok"
            THEN Proceed(AfterSensors(p),
                         [combined EXCEPT
                             !.nodes = NewObj("nodes", poll_count),
                             !.node_metrics.map =
                                 IF data = None THEN <<>> ELSE data.node_metrics.map],
                         p)
            ELSE Abort(r.result)

\* Lines 79-82: the node inventory, then the loop over this tick's sensors.
FetchNodes(D) ==
    /\ pc = "nodes"
    /\ Due(NODES_POLL_INTERVAL)
    /\ \E resps \in D :
         LET r == ClientCall("nodes", resps)
             p == QualifyingSensors(combined.ems.val.sensors) IN
         /\ Called("nodes", 0, resps, r)
         /\ IF r.result = "ok"
            THEN Proceed(AfterSensors(p),
                         [combined EXCEPT !.nodes = NewObj("nodes", poll_count)], p)
            ELSE Abort(r.result)

\* Lines 92-94.
CarryNodes ==
    /\ pc = "nodes"
    /\ ~Due(NODES_POLL_INTERVAL)
    /\ data # None
    /\ Proceed("schedule",
               [combined EXCEPT !.nodes = Carried("nodes"),
                                !.node_metrics = Carried("node_metrics")],
               <<>>)
    /\ NoCallMade

WithMetricsReset(c, node_id, r) ==
    IF r.result = "ok"
    THEN [c EXCEPT !.node_metrics.map = (node_id :> NewMetrics(node_id, poll_count)) @@ @]
    ELSE [c EXCEPT !.node_metrics.map = <<>>]

\* Lines 84-91: what one sensor's metrics call leaves in combined.node_metrics;
\* any exception is logged and swallowed.
WithMetrics(c, node_id, r) ==
    IF r.result = "ok"
    THEN [c EXCEPT !.node_metrics.map = (node_id :> NewMetrics(node_id, poll_count)) @@ @]
    ELSE c

\* Lines 83-91: one pass of the loop body for the next qualifying sensor.
FetchNodeMetrics(D) ==
    /\ pc = "node_metrics"
    /\ pending # <<>>
    /\ \E resps \in D :
         LET sensor == Head(pending)
             r == ClientCall("node_metrics", resps) IN
         /\ Called("node_metrics", sensor.node_id, resps, r)
         /\ Proceed(AfterSensors(Tail(pending)),
                    WithMetrics(combined, sensor.node_id, r), Tail(pending))

WithScheduleNoCarry(c, r) ==
    IF r.result = "ok"
    THEN [c EXCEPT !.schedule = NewObj("schedule", poll_count)]
    ELSE c

\* Lines 98-103: what the schedule call leaves in combined.schedule; any
\* exception is logged and swallowed.
WithSchedule(c, r) ==
    IF r.result = "ok"
    THEN [c EXCEPT !.schedule = NewObj("schedule", poll_count)]
    ELSE IF data # None
         THEN [c EXCEPT !.schedule = Carried("schedule")]
         ELSE c

\* Lines 97-103.
FetchSchedule(D) ==
    /\ pc = "schedule"
    /\ Due(SCHEDULE_POLL_INTERVAL)
    /\ \E resps \in D :
         LET r == ClientCall("schedule", resps) IN
         /\ Called("schedule", 0, resps, r)
         /\ Proceed("events", WithSchedule(combined, r), <<>>)

\* Lines 104-105.
CarrySchedule ==
    /\ pc = "schedule"
    /\ ~Due(SCHEDULE_POLL_INTERVAL)
    /\ data # None
    /\ Proceed("events", [combined EXCEPT !.schedule = Carried("schedule")], <<>>)
    /\ NoCallMade

\* hass.bus.async_fire(type, {"previous": ..., "current": ...})
Event(type, previous, current) ==
    [type |-> type, previous |-> previous, current |-> current]

EventsOnEveryTick(prev, c) ==
    IF prev = None
    THEN <<>>
    ELSE LET p == prev.ems.val
             q == c.ems.val IN
         <<Event("homevolt_alarm", p.alarm_str, q.alarm_str)>>
         \o (IF p.warning_str # q.warning_str
             THEN <<Event("homevolt_warning", p.warning_str, q.warning_str)>> ELSE <<>>)
         \o (IF p.info_str # q.info_str
             THEN <<Event("homevolt_info", p.info_str, q.info_str)>> ELSE <<>>)

\* Lines 108-125: the events of a tick whose previous snapshot is `prev`.
Events(prev, c) ==
    IF prev = None
    THEN <<>>
    ELSE LET p == prev.ems.val
             q == c.ems.val IN
         (IF p.alarm_str # q.alarm_str
          THEN <<Event("homevolt_alarm", p.alarm_str, q.alarm_str)>> ELSE <<>>)
         \o (IF p.warning_str # q.warning_str
             THEN <<Event("homevolt_warning", p.warning_str, q.warning_str)>> ELSE <<>>)
         \o (IF p.info_str # q.info_str
             THEN <<Event("homevolt_info", p.info_str, q.info_str)>> ELSE <<>>)

FireEventsAfterStoring ==
    /\ pc = "events"
    /\ pc' = "return"
    /\ fired' = fired \o Events(data, combined)
    /\ data' = combined
    /\ UNCHANGED <<poll_count, combined, pending, outcome, data_at_start, ticks>>
    /\ UNCHANGED <<setup, arg, ret>>
    /\ NoCallMade

FireEvents ==
    /\ pc = "events"
    /\ pc' = "return"
    /\ fired' = fired \o Events(data, combined)
    /\ UNCHANGED <<poll_count, data, combined, pending, outcome, data_at_start, ticks>>
    /\ UNCHANGED <<setup, arg, ret>>
    /\ NoCallMade

\* Line 132, and the caller's `self.data = await self._async_update_data()`.
Return ==
    /\ pc = "return"
    /\ pc' = "idle"
    /\ outcome' = "returned"
    /\ data' = combined
    /\ combined' = None
    /\ UNCHANGED <<poll_count, pending, fired, data_at_start, ticks>>
    /\ UNCHANGED <<setup, arg, ret>>
    /\ NoCallMade

\* The tick is suspended in a transport call.
AtAwait ==
    \/ pc \in {"ems", "node_metrics"}
    \/ pc = "status" /\ Due(STATUS_POLL_INTERVAL)
    \/ pc = "error_report" /\ Due(ERROR_REPORT_POLL_INTERVAL)
    \/ pc = "nodes" /\ Due(NODES_POLL_INTERVAL)
    \/ pc = "schedule" /\ Due(SCHEDULE_POLL_INTERVAL)

\* The caller abandons the tick in flight: it never resumes.
Abandon ==
    /\ AtAwait
    /\ faults < MaxFaults
    /\ pc' = "idle"
    /\ outcome' = "abandoned"
    /\ combined' = None
    /\ pending' = <<>>
    /\ faults' = faults + 1
    /\ fetch_count' = NoCounts
    /\ UNCHANGED <<poll_count, data, fired, data_at_start, ticks, requested, last_call>>
    /\ UNCHANGED <<setup, arg, ret>>

Next ==
    \/ TickStart
    \/ FetchEms(DeviceBehaviours)
    \/ FetchStatus(DeviceBehaviours)
    \/ CarryStatus
    \/ FetchErrorReport(DeviceBehaviours)
    \/ CarryErrorReport
    \/ FetchNodes(DeviceBehaviours)
    \/ CarryNodes
    \/ FetchNodeMetrics(DeviceBehaviours)
    \/ FetchSchedule(DeviceBehaviours)
    \/ CarrySchedule
    \/ FireEvents
    \/ Return
    \/ Abandon

Spec == Init /\ [][Next]_vars

(***************************************************************************)
(* The coordinator under its scheduler: update_interval makes the          *)
(* scheduler invoke a tick again and again, whatever the previous tick     *)
(* ended with, and a tick that is not cancelled goes on whenever the       *)
(* transport call it awaits ends.  The device fails at most MaxFaults      *)
(* calls.                                                                  *)
(***************************************************************************)
\* One step of the tick in flight.
TickStep ==
    \/ FetchEms(DeviceBehaviours)
    \/ FetchStatus(DeviceBehaviours)
    \/ CarryStatus
    \/ FetchErrorReport(DeviceBehaviours)
    \/ CarryErrorReport
    \/ FetchNodes(DeviceBehaviours)
    \/ CarryNodes
    \/ FetchNodeMetrics(DeviceBehaviours)
    \/ FetchSchedule(DeviceBehaviours)
    \/ CarrySchedule
    \/ FireEvents
    \/ Return

\* The scheduler's timer fires: the next tick is invoked.
ScheduledTick ==
    /\ poll_count < MaxScheduledTicks
    /\ TickStart

NextScheduled == ScheduledTick \/ TickStep

SpecScheduled ==
    /\ Init
    /\ [][NextScheduled]_vars
    /\ WF_vars(ScheduledTick)
    /\ WF_vars(TickStep)

(***************************************************************************)
(* __init__.py: async_setup_entry, which builds the coordinator, awaits    *)
(* its first refresh (the coordinator's first tick) and only then touches  *)
(* the config entry.                                                       *)
(***************************************************************************)
\* Lines 26-36: the client and the coordinator are built.
SetupStart ==
    /\ setup.pc = "none"
    /\ pc = "idle"
    /\ ticks = 0
    /\ setup' = [setup EXCEPT !.pc = "first_refresh"]
    /\ UNCHANGED <<tick_vars, arg, ret>>

\* Line 39: async_config_entry_first_refresh calls _async_update_data.
FirstRefresh ==
    /\ setup.pc = "first_refresh"
    /\ ticks = 0
    /\ TickStart

FirstRefreshPropagates(exc) == exc

\* async_config_entry_first_refresh: UpdateFailed becomes ConfigEntryNotReady,
\* any other exception goes through.
FirstRefreshRaises(exc) ==
    IF exc = "UpdateFailed" THEN "ConfigEntryNotReady" ELSE exc

\* Line 39 returns: the first tick stored its snapshot.
SetupRefreshed ==
    /\ setup.pc = "first_refresh"
    /\ ticks = 1
    /\ pc = "idle"
    /\ outcome = "returned"
    /\ setup' = [setup EXCEPT !.pc = "store"]
    /\ UNCHANGED <<tick_vars, arg, ret>>

\* Line 39 raises (or the setup is cancelled while it waits): async_setup_entry
\* ends there.
SetupFailed ==
    /\ setup.pc = "first_refresh"
    /\ ticks = 1
    /\ pc = "idle"
    /\ outcome # "returned"
    /\ setup' = [setup EXCEPT
                    !.pc = "done",
                    !.result = IF outcome = "abandoned"
                               THEN "CancelledError"
                               ELSE FirstRefreshRaises(outcome)]
    /\ UNCHANGED <<tick_vars, arg, ret>>

\* Line 41: entry.runtime_data = coordinator
SetupStore ==
    /\ setup.pc = "store"
    /\ setup' = [setup EXCEPT !.pc = "forward", !.runtime_data = "coordinator"]
    /\ UNCHANGED <<tick_vars, arg, ret>>

\* Line 43: async_forward_entry_setups(entry, PLATFORMS)
SetupForward ==
    /\ setup.pc = "forward"
    /\ setup' = [setup EXCEPT !.pc = "listen", !.forwarded = TRUE]
    /\ UNCHANGED <<tick_vars, arg, ret>>

\* Lines 46-48: the update listener is registered and setup returns True.
SetupListen ==
    /\ setup.pc = "listen"
    /\ setup' = [setup EXCEPT !.pc = "done", !.listener = TRUE, !.result = "True"]
    /\ UNCHANGED <<tick_vars, arg, ret>>

NextSetup ==
    \/ SetupStart
    \/ FirstRefresh
    \/ FetchEms(DeviceBehaviours)
    \/ FetchStatus(DeviceBehaviours)
    \/ FetchErrorReport(DeviceBehaviours)
    \/ FetchNodes(DeviceBehaviours)
    \/ FetchNodeMetrics(DeviceBehaviours)
    \/ FetchSchedule(DeviceBehaviours)
    \/ FireEvents
    \/ Return
    \/ Abandon
    \/ SetupRefreshed
    \/ SetupFailed
    \/ SetupStore
    \/ SetupForward
    \/ SetupListen

SpecSetup == Init /\ [][NextSetup]_vars

(***************************************************************************)
(* sensor.py: the schedule lookups behind the schedule sensors, each run   *)
(* on a schedule and a wall clock drawn from bounded sets.                 *)
(***************************************************************************)
\* ScheduleEntry, the four fields the lookups read.
ScheduleEntry(from_ts, to_ts, type, setpoint) ==
    [from_ts |-> from_ts, to_ts |-> to_ts, type |-> type, setpoint |-> setpoint]

\* `return None` of the lookups.
NoEntry == [type |-> "None"]

\* `for entry in entries: if test(entry): return entry`, else None; I is the
\* set of positions whose entry passes the test.
FirstIn(entries, I) ==
    IF I = {} THEN NoEntry ELSE entries[CHOOSE i \in I : \A j \in I : i <= j]

\* _find_current_entry, with `now` the clock it reads.
find_current_entry(schedule, now) ==
    IF schedule = None \/ schedule.entries = <<>>
    THEN NoEntry
    ELSE LET Covers(entry) == entry.from_ts <= now /\ now < entry.to_ts IN
         FirstIn(schedule.entries,
                 {i \in DOMAIN schedule.entries : Covers(schedule.entries[i])})

\* _find_next_entry: `now` is the clock it reads itself, `now_inner` the one
\* _find_current_entry reads when called from it.
find_next_entry(schedule, now, now_inner) ==
    IF schedule = None \/ schedule.entries = <<>>
    THEN NoEntry
    ELSE LET current == find_current_entry(schedule, now_inner)
             Differs(entry) ==
                 /\ entry.from_ts >= now
                 /\ \/ current = NoEntry
                    \/ entry.type # current.type
                    \/ entry.setpoint # current.setpoint IN
         FirstIn(schedule.entries,
                 {i \in DOMAIN schedule.entries : Differs(schedule.entries[i])})

\* The schedules and clocks the lookups are run on: entries of one or two
\* seconds starting within 0..MaxTs-1, three actions, lists of up to
\* MaxEntries entries in any order (overlapping ones included), no schedule.
ScheduleActions == { <<"idle", 0>>, <<"charge", 0>>, <<"charge", 1000>> }
ScheduleEntries ==
    { ScheduleEntry(f, f + span, a[1], a[2]) :
        f \in 0..(MaxTs - 1), span \in 1..2, a \in ScheduleActions }
Schedules ==
    {None} \cup { [entries |-> q] :
                    q \in UNION { [1..n -> ScheduleEntries] : n \in 0..MaxEntries } }

\* The second clock read is the same second or the next.
InitSchedule ==
    /\ InitCoordinator
    /\ setup = NotSetUp
    /\ arg \in { [of |-> "lookup", schedule |-> sch, now |-> n, now_inner |-> n + late] :
                    sch \in Schedules, n \in 0..MaxTs, late \in 0..1 }
    /\ ret = NoRet

FindNextEntry ==
    /\ arg.of = "lookup"
    /\ ret.of = "none"
    /\ ret' = [of |-> "lookup",
               value |-> find_next_entry(arg.schedule, arg.now, arg.now_inner)]
    /\ UNCHANGED <<tick_vars, setup, arg>>

NextSchedule == FindNextEntry

SpecSchedule == InitSchedule /\ [][NextSchedule]_vars

(***************************************************************************)
(* models.py: the response decoders (the from_dict classmethods), each run *)
(* on a raw payload drawn from a bounded set.  A JSON object is a function *)
(* from its keys to their values, a JSON array a sequence; the floats of   *)
(* the source are written as integers (0.0 as 0).                          *)
(***************************************************************************)
EmptyDict == [k \in {} |-> 0]
Null == [null |-> TRUE]

\* `name: type = default`, and `name: Class = field(default_factory=Class)`.
Field(name, type, default) ==
    [name |-> name, type |-> type, factory |-> "", default |-> default]
FieldOf(name, of) ==
    [name |-> name, type |-> "object", factory |-> of, default |-> EmptyDict]

\* `name=data.get(key, default)`, `name=Class.from_dict(data.get(key, {}))`
\* and `name=[Class.from_dict(x) for x in data.get(key, [])]`.
GetArg(name, key, default) ==
    [name |-> name, key |-> key, kind |-> "get", of |-> "", default |-> default]
ObjectArg(name, key, of) ==
    [name |-> name, key |-> key, kind |-> "from_dict", of |-> of, default |-> EmptyDict]
ListArg(name, key, of) ==
    [name |-> name, key |-> key, kind |-> "list", of |-> of, default |-> <<>>]

Decoders ==
    { "EmsInfo",
      "BmsInfo",
      "InvInfo",
      "EmsConfig",
      "EmsControl",
      "EmsData",
      "BmsData",
      "EmsPrediction",
      "EmsVoltage",
      "EmsCurrent",
      "EmsAggregate",
      "EmsDevice",
      "PhaseData",
      "SensorData",
      "HomevoltEmsResponse",
      "WifiStatus",
      "MqttStatus",
      "LteStatus",
      "FirmwareInfo",
      "HomevoltStatusResponse",
      "ErrorReportEntry" }

\* The dataclass declarations: the fields of each class with their defaults.
Declared(cls) ==
    CASE cls = "EmsInfo" -> <<
           Field("protocol_version", "int", 0),
           Field("fw_version", "str", ""),
           Field("rated_capacity", "int", 0),
           Field("rated_power", "int", 0) >>
      [] cls = "BmsInfo" -> <<
           Field("fw_version", "str", ""),
           Field("serial_number", "str", ""),
           Field("rated_cap", "int", 0),
           Field("id", "int", 0) >>
      [] cls = "InvInfo" -> <<
           Field("fw_version", "str", ""),
           Field("serial_number", "str", "") >>
      [] cls = "EmsConfig" -> <<
           Field("grid_code_preset", "int", 0),
           Field("grid_code_preset_str", "str", ""),
           Field("control_timeout", "bool", FALSE) >>
      [] cls = "EmsControl" -> <<
           Field("mode_sel", "int", 0),
           Field("mode_sel_str", "str", ""),
           Field("pwr_ref", "int", 0) >>
      [] cls = "EmsData" -> <<
           Field("timestamp_ms", "int", 0),
           Field("state", "int", 0),
           Field("state_str", "str", ""),
           Field("info", "int", 0),
           Field("info_str", "list", <<>>),
           Field("warning", "int", 0),
           Field("warning_str", "list", <<>>),
           Field("alarm", "int", 0),
           Field("alarm_str", "list", <<>>),
           Field("phase_angle", "int", 0),
           Field("frequency", "int", 0),
           Field("phase_seq", "int", 0),
           Field("power", "int", 0),
           Field("apparent_power", "int", 0),
           Field("reactive_power", "int", 0),
           Field("energy_produced", "int", 0),
           Field("energy_consumed", "int", 0),
           Field("sys_temp", "int", 0),
           Field("avail_cap", "int", 0),
           Field("freq_res_state", "int", 0),
           Field("soc_avg", "int", 0) >>
      [] cls = "BmsData" -> <<
           Field("energy_avail", "int", 0),
           Field("cycle_count", "int", 0),
           Field("soc", "int", 0),
           Field("state", "int", 0),
           Field("state_str", "str", ""),
           Field("alarm", "int", 0),
           Field("alarm_str", "list", <<>>),
           Field("tmin", "int", 0),
           Field("tmax", "int", 0) >>
      [] cls = "EmsPrediction" -> <<
           Field("avail_ch_pwr", "int", 0),
           Field("avail_di_pwr", "int", 0),
           Field("avail_ch_energy", "int", 0),
           Field("avail_di_energy", "int", 0),
           Field("avail_inv_ch_pwr", "int", 0),
           Field("avail_inv_di_pwr", "int", 0),
           Field("avail_group_fuse_ch_pwr", "int", 0),
           Field("avail_group_fuse_di_pwr", "int", 0) >>
      [] cls = "EmsVoltage" -> <<
           Field("l1", "int", 0),
           Field("l2", "int", 0),
           Field("l3", "int", 0),
           Field("l1_l2", "int", 0),
           Field("l2_l3", "int", 0),
           Field("l3_l1", "int", 0) >>
      [] cls = "EmsCurrent" -> <<
           Field("l1", "int", 0),
           Field("l2", "int", 0),
           Field("l3", "int", 0) >>
      [] cls = "EmsAggregate" -> <<
           Field("imported_kwh", "float", 0),
           Field("exported_kwh", "float", 0) >>
      [] cls = "EmsDevice" -> <<
           Field("ecu_id", "int", 0),
           Field("ecu_host", "str", ""),
           Field("ecu_version", "str", ""),
           Field("error", "int", 0),
           Field("error_str", "str", ""),
           Field("op_state", "int", 0),
           Field("op_state_str", "str", ""),
           FieldOf("ems_info", "EmsInfo"),
           Field("bms_info", "list", <<>>),
           FieldOf("inv_info", "InvInfo"),
           FieldOf("ems_config", "EmsConfig"),
           FieldOf("ems_control", "EmsControl"),
           FieldOf("ems_data", "EmsData"),
           Field("bms_data", "list", <<>>),
           FieldOf("ems_prediction", "EmsPrediction"),
           FieldOf("ems_voltage", "EmsVoltage"),
           FieldOf("ems_current", "EmsCurrent"),
           FieldOf("ems_aggregate", "EmsAggregate"),
           Field("error_cnt", "int", 0) >>
      [] cls = "PhaseData" -> <<
           Field("voltage", "float", 0),
           Field("amp", "float", 0),
           Field("power", "float", 0),
           Field("pf", "float", 0) >>
      [] cls = "SensorData" -> <<
           Field("type", "str", ""),
           Field("node_id", "int", 0),
           Field("euid", "str", ""),
           Field("interface", "int", 0),
           Field("available", "bool", FALSE),
           Field("rssi", "float", 0),
           Field("average_rssi", "float", 0),
           Field("pdr", "float", 0),
           Field("phase", "list", <<>>),
           Field("frequency", "float", 0),
           Field("total_power", "int", 0),
           Field("energy_imported", "float", 0),
           Field("energy_exported", "float", 0),
           Field("timestamp", "int", 0),
           Field("timestamp_str", "str", "") >>
      [] cls = "HomevoltEmsResponse" -> <<
           Field("type", "str", ""),
           Field("ts", "int", 0),
           Field("ems", "list", <<>>),
           FieldOf("aggregated", "EmsDevice"),
           Field("sensors", "list", <<>>) >>
      [] cls = "WifiStatus" -> <<
           Field("wifi_mode", "str", ""),
           Field("ip", "str", ""),
           Field("ssid", "str", ""),
           Field("rssi", "int", 0),
           Field("connected", "bool", FALSE) >>
      [] cls = "MqttStatus" -> <<
           Field("connected", "bool", FALSE),
           Field("subscribed", "bool", FALSE) >>
      [] cls = "LteStatus" -> <<
           Field("operator_name", "str", ""),
           Field("band", "str", ""),
           Field("rssi_db", "int", 0),
           Field("pdp_active", "bool", FALSE) >>
      [] cls = "FirmwareInfo" -> <<
           Field("esp", "str", ""),
           Field("efr", "str", "") >>
      [] cls = "HomevoltStatusResponse" -> <<
           Field("up_time", "int", 0),
           FieldOf("firmware", "FirmwareInfo"),
           FieldOf("wifi_status", "WifiStatus"),
           FieldOf("mqtt_status", "MqttStatus"),
           FieldOf("lte_status", "LteStatus") >>
      [] cls = "ErrorReportEntry" -> <<
           Field("sub_system_id", "int", 0),
           Field("sub_system_name", "str", ""),
           Field("error_id", "int", 0),
           Field("error_name", "str", ""),
           Field("activated", "str", ""),
           Field("message", "str", ""),
           Field("details", "list", <<>>) >>

\* The from_dict classmethods: the keyword arguments each passes to cls(...).
FromDictArgs(cls) ==
    CASE cls = "EmsInfo" -> <<
           GetArg("protocol_version", "protocol_version", 0),
           GetArg("fw_version", "fw_version", ""),
           GetArg("rated_capacity", "rated_capacity", 0),
           GetArg("rated_power", "rated_power", 0) >>
      [] cls = "BmsInfo" -> <<
           GetArg("fw_version", "fw_version", ""),
           GetArg("serial_number", "serial_number", ""),
           GetArg("rated_cap", "rated_cap", 0),
           GetArg("id", "id", 0) >>
      [] cls = "InvInfo" -> <<
           GetArg("fw_version", "fw_version", ""),
           GetArg("serial_number", "serial_number", "") >>
      [] cls = "EmsConfig" -> <<
           GetArg("grid_code_preset", "grid_code_preset", 0),
           GetArg("grid_code_preset_str", "grid_code_preset_str", ""),
           GetArg("control_timeout", "control_timeout", FALSE) >>
      [] cls = "EmsControl" -> <<
           GetArg("mode_sel", "mode_sel", 0),
           GetArg("mode_sel_str", "mode_sel_str", ""),
           GetArg("pwr_ref", "pwr_ref", 0) >>
      [] cls = "EmsData" -> <<
           GetArg("timestamp_ms", "timestamp_ms", 0),
           GetArg("state", "state", 0),
           GetArg("state_str", "state_str", ""),
           GetArg("info", "info", 0),
           GetArg("info_str", "info_str", <<>>),
           GetArg("warning", "warning", 0),
           GetArg("warning_str", "warning_str", <<>>),
           GetArg("alarm", "alarm", 0),
           GetArg("alarm_str", "alarm_str", <<>>),
           GetArg("phase_angle", "phase_angle", 0),
           GetArg("frequency", "frequency", 0),
           GetArg("phase_seq", "phase_seq", 0),
           GetArg("power", "power", 0),
           GetArg("apparent_power", "apparent_power", 0),
           GetArg("reactive_power", "reactive_power", 0),
           GetArg("energy_produced", "energy_produced", 0),
           GetArg("energy_consumed", "energy_consumed", 0),
           GetArg("sys_temp", "sys_temp", 0),
           GetArg("avail_cap", "avail_cap", 0),
           GetArg("freq_res_state", "freq_res_state", 0),
           GetArg("soc_avg", "soc_avg", 0) >>
      [] cls = "BmsData" -> <<
           GetArg("energy_avail", "energy_avail", 0),
           GetArg("cycle_count", "cycle_count", 0),
           GetArg("soc", "soc", 0),
           GetArg("state", "state", 0),
           GetArg("state_str", "state_str", ""),
           GetArg("alarm", "alarm", 0),
           GetArg("alarm_str", "alarm_str", <<>>),
           GetArg("tmin", "tmin", 0),
           GetArg("tmax", "tmax", 0) >>
      [] cls = "EmsPrediction" -> <<
           GetArg("avail_ch_pwr", "avail_ch_pwr", 0),
           GetArg("avail_di_pwr", "avail_di_pwr", 0),
           GetArg("avail_ch_energy", "avail_ch_energy", 0),
           GetArg("avail_di_energy", "avail_di_energy", 0),
           GetArg("avail_inv_ch_pwr", "avail_inv_ch_pwr", 0),
           GetArg("avail_inv_di_pwr", "avail_inv_di_pwr", 0),
           GetArg("avail_group_fuse_ch_pwr", "avail_group_fuse_ch_pwr", 0),
           GetArg("avail_group_fuse_di_pwr", "avail_group_fuse_di_pwr", 0) >>
      [] cls = "EmsVoltage" -> <<
           GetArg("l1", "l1", 0),
           GetArg("l2", "l2", 0),
           GetArg("l3", "l3", 0),
           GetArg("l1_l2", "l1_l2", 0),
           GetArg("l2_l3", "l2_l3", 0),
           GetArg("l3_l1", "l3_l1", 0) >>
      [] cls = "EmsCurrent" -> <<
           GetArg("l1", "l1", 0),
           GetArg("l2", "l2", 0),
           GetArg("l3", "l3", 0) >>
      [] cls = "EmsAggregate" -> <<
           GetArg("imported_kwh", "imported_kwh", 0),
           GetArg("exported_kwh", "exported_kwh", 0) >>
      [] cls = "EmsDevice" -> <<
           GetArg("ecu_id", "ecu_id", 0),
           GetArg("ecu_host", "ecu_host", ""),
           GetArg("ecu_version", "ecu_version", ""),
           GetArg("error", "error", 0),
           GetArg("error_str", "error_str", ""),
           GetArg("op_state", "op_state", 0),
           GetArg("op_state_str", "op_state_str", ""),
           ObjectArg("ems_info", "ems_info", "EmsInfo"),
           ListArg("bms_info", "bms_info", "BmsInfo"),
           ObjectArg("inv_info", "inv_info", "InvInfo"),
           ObjectArg("ems_config", "ems_config", "EmsConfig"),
           ObjectArg("ems_control", "ems_control", "EmsControl"),
           ObjectArg("ems_data", "ems_data", "EmsData"),
           ListArg("bms_data", "bms_data", "BmsData"),
           ObjectArg("ems_prediction", "ems_prediction", "EmsPrediction"),
           ObjectArg("ems_voltage", "ems_voltage", "EmsVoltage"),
           ObjectArg("ems_current", "ems_current", "EmsCurrent"),
           ObjectArg("ems_aggregate", "ems_aggregate", "EmsAggregate"),
           GetArg("error_cnt", "error_cnt", 0) >>
      [] cls = "PhaseData" -> <<
           GetArg("voltage", "voltage", 0),
           GetArg("amp", "amp", 0),
           GetArg("power", "power", 0),
           GetArg("pf", "pf", 0) >>
      [] cls = "SensorData" -> <<
           GetArg("type", "type", ""),
           GetArg("node_id", "node_id", 0),
           GetArg("euid", "euid", ""),
           GetArg("interface", "interface", 0),
           GetArg("available", "available", FALSE),
           GetArg("rssi", "rssi", 0),
           GetArg("average_rssi", "average_rssi", 0),
           GetArg("pdr", "pdr", 0),
           ListArg("phase", "phase", "PhaseData"),
           GetArg("frequency", "frequency", 0),
           GetArg("total_power", "total_power", 0),
           GetArg("energy_imported", "energy_imported", 0),
           GetArg("energy_exported", "energy_exported", 0),
           GetArg("timestamp", "timestamp", 0),
           GetArg("timestamp_str", "timestamp_str", "") >>
      [] cls = "HomevoltEmsResponse" -> <<
           GetArg("type", "$type", ""),
           GetArg("ts", "ts", 0),
           ListArg("ems", "ems", "EmsDevice"),
           ObjectArg("aggregated", "aggregated", "EmsDevice"),
           ListArg("sensors", "sensors", "SensorData") >>
      [] cls = "WifiStatus" -> <<
           GetArg("wifi_mode", "wifi_mode", ""),
           GetArg("ip", "ip", ""),
           GetArg("ssid", "ssid", ""),
           GetArg("rssi", "rssi", 0),
           GetArg("connected", "connected", FALSE) >>
      [] cls = "MqttStatus" -> <<
           GetArg("connected", "connected", FALSE),
           GetArg("subscribed", "subscribed", FALSE) >>
      [] cls = "LteStatus" -> <<
           GetArg("operator_name", "operator_name", ""),
           GetArg("band", "band", ""),
           GetArg("rssi_db", "rssi_db", 0),
           GetArg("pdp_active", "pdp_active", FALSE) >>
      [] cls = "FirmwareInfo" -> <<
           GetArg("esp", "esp", ""),
           GetArg("efr", "efr", "") >>
      [] cls = "HomevoltStatusResponse" -> <<
           GetArg("up_time", "up_time", 0),
           ObjectArg("firmware", "firmware", "FirmwareInfo"),
           ObjectArg("wifi_status", "wifi_status", "WifiStatus"),
           ObjectArg("mqtt_status", "mqtt_status", "MqttStatus"),
           ObjectArg("lte_status", "lte_status", "LteStatus") >>
      [] cls = "ErrorReportEntry" -> <<
           GetArg("sub_system_id", "sub_system_id", 0),
           GetArg("sub_system_name", "sub_system_name", ""),
           GetArg("error_id", "error_id", 0),
           GetArg("error_name", "error_name", ""),
           GetArg("activated", "activated", ""),
           GetArg("message", "message", ""),
           GetArg("details", "details", <<>>) >>

\* The names a table lists, and its entry of a name or of a key.
Names(table) == {table[i].name : i \in DOMAIN table}
Entry(table, name) == table[CHOOSE i \in DOMAIN table : table[i].name = name]
Keys(cls) == {FromDictArgs(cls)[i].key : i \in DOMAIN FromDictArgs(cls)}
ArgOfKey(cls, key) ==
    FromDictArgs(cls)[CHOOSE i \in DOMAIN FromDictArgs(cls) : FromDictArgs(cls)[i].key = key]
TypeOf(cls, name) == Entry(Declared(cls), name).type

\* cls(): every field at its declared default.
RECURSIVE New(_)
New(cls) ==
    [name \in Names(Declared(cls)) |->
        LET f == Entry(Declared(cls), name) IN
        IF f.factory # "" THEN New(f.factory) ELSE f.default]

\* A value of each scalar type that is not the type's zero.
Sample(type) ==
    CASE type = "int"   -> 7
      [] type = "float" -> 7
      [] type = "str"   -> "x"
      [] type = "bool"  -> TRUE
      [] type = "list"  -> <<"x">>

DefaultOfSample(cls, a) ==
    IF a.kind = "get" THEN Sample(TypeOf(cls, a.name)) ELSE a.default

\* The second argument of `data.get(key, default)`.
DefaultOf(cls, a) == a.default

\* dict.get
Get(raw, key, default) == IF key \in DOMAIN raw THEN raw[key] ELSE default

\* Class.from_dict(raw), for a raw payload it does not raise on.
RECURSIVE from_dict(_, _)
from_dict(cls, raw) ==
    LET args == FromDictArgs(cls)
        kwargs == [name \in Names(args) |->
                      LET a == Entry(args, name)
                          v == Get(raw, a.key, DefaultOf(cls, a)) IN
                      CASE a.kind = "get"       -> v
                        [] a.kind = "from_dict" -> from_dict(a.of, v)
                        [] a.kind = "list"      -> [i \in DOMAIN v |-> from_dict(a.of, v[i])]]
    IN  [name \in Names(Declared(cls)) |->
            IF name \in DOMAIN kwargs
            THEN kwargs[name]
            ELSE New(cls)[name]]

\* Class.from_dict(raw) raises: `.get` on a JSON null (AttributeError),
\* in the class or in a nested one, or a keyword cls(...) does not declare
\* (TypeError).
RECURSIVE Raises(_, _)
Raises(cls, raw) ==
    \/ raw = Null
    \/ ~(Names(FromDictArgs(cls)) \subseteq Names(Declared(cls)))
    \/ \E i \in DOMAIN FromDictArgs(cls) :
          LET a == FromDictArgs(cls)[i] IN
          /\ a.key \in DOMAIN raw
          /\ CASE a.kind = "from_dict" -> Raises(a.of, raw[a.key])
                [] a.kind = "list" ->
                      \E j \in DOMAIN raw[a.key] : Raises(a.of, raw[a.key][j])
                [] OTHER -> FALSE

\* The raw payloads a decoder is run on: objects holding any at most n of the
\* expected keys, each scalar key with a sample of its type, each nested key
\* with a nested object or a JSON null, each array key with an empty or a
\* one-element array.  A nested object holds the first j expected keys of
\* its class, for each j below n (one less per level): every subset of its
\* keys is met where its class is decoded on its own.
Below(m) == IF m > 0 THEN m - 1 ELSE 0

RECURSIVE KeySets(_, _)
KeySets(keys, n) ==
    IF n = 0
    THEN {{}}
    ELSE LET S == KeySets(keys, n - 1) IN S \cup {K \cup {k} : K \in S, k \in keys}

FirstKeys(cls, j) ==
    {FromDictArgs(cls)[i].key : i \in {i \in DOMAIN FromDictArgs(cls) : i <= j}}

RECURSIVE NestedPayloads(_, _)
RECURSIVE RawValues(_, _, _)
RECURSIVE DictsOver(_, _, _)
RawValues(cls, a, m) ==
    CASE a.kind = "get"       -> {Sample(TypeOf(cls, a.name))}
      [] a.kind = "from_dict" -> NestedPayloads(a.of, m) \cup {Null}
      [] a.kind = "list"      ->
            {<<>>} \cup {<<x>> : x \in NestedPayloads(a.of, m) \cup {Null}}
DictsOver(cls, K, m) ==
    IF K = {}
    THEN {EmptyDict}
    ELSE LET k == CHOOSE k \in K : TRUE IN
         {(k :> v) @@ d : v \in RawValues(cls, ArgOfKey(cls, k), m),
                          d \in DictsOver(cls, K \ {k}, m)}
NestedPayloads(cls, m) ==
    UNION {DictsOver(cls, FirstKeys(cls, j), Below(m)) : j \in 0..m}

RawPayloads(cls, n) ==
    UNION {DictsOver(cls, K, Below(n)) : K \in KeySets(Keys(cls), n)}

InitDecode ==
    /\ InitCoordinator
    /\ setup = NotSetUp
    /\ arg \in UNION { {[of |-> "decode", cls |-> cls, raw |-> raw] :
                           raw \in RawPayloads(cls, MaxKeys)} :
                       cls \in Decoders }
    /\ ret = NoRet

\* Class.from_dict(raw) runs: the record it returns, or the exception.
Decode ==
    /\ arg.of = "decode"
    /\ ret.of = "none"
    /\ ret' = IF Raises(arg.cls, arg.raw)
              THEN [of |-> "decode", raised |-> TRUE, value |-> EmptyDict]
              ELSE [of |-> "decode", raised |-> FALSE,
                    value |-> from_dict(arg.cls, arg.raw)]
    /\ UNCHANGED <<tick_vars, setup, arg>>

NextDecode == Decode

SpecDecode == InitDecode /\ [][NextDecode]_vars

(***************************************************************************)
(* api.py on its own: one call of the transport client against a device    *)
(* that may answer each attempt in any way.  A script gives the outcome    *)
(* the device has for attempts 1..MAX_RETRIES; the call consumes it as far *)
(* as it goes.                                                             *)
(***************************************************************************)
ResponseScripts == [1..MAX_RETRIES -> Responses]

InitTransport ==
    /\ InitCoordinator
    /\ setup = NotSetUp
    /\ arg \in {[of |-> "request", endpoint |-> e, script |-> s] :
                    e \in Endpoints, s \in ResponseScripts}
    /\ ret = NoRet

\* The call runs to its end: what it returned or raised, after how many
\* attempts and which sleeps.
RequestCall ==
    /\ arg.of = "request"
    /\ ret.of = "none"
    /\ LET r == ClientCall(arg.endpoint, arg.script) IN
         ret' = [of |-> "request", result |-> r.result, attempts |-> r.attempts,
                 sleeps |-> r.sleeps]
    /\ UNCHANGED <<tick_vars, setup, arg>>

NextTransport == RequestCall

SpecTransport == InitTransport /\ [][NextTransport]_vars

(***************************************************************************)
(* Vocabulary of the properties.                                           *)
(***************************************************************************)
\* Endpoints whose failure leaves the try block, and those whose failure is
\* caught next to the call.
FatalEndpoints == {"ems", "status", "error_report", "nodes"}
AbsorbedEndpoints == {"node_metrics", "schedule"}

PeriodicTiers == {"status", "error_report", "nodes", "schedule"}

\* The periods as the specification states them.
StatedPeriod(e) == IF e = "error_report" THEN 4 ELSE 10

\* The ticks among 1..n on which tier e is due: tick 1 and the multiples of
\* its period.
TicksDue(e, n) == {k \in 1..n : k = 1 \/ k % StatedPeriod(e) = 0}

\* The exceptions a tick can end with.
RaisedOutcomes ==
    {"ConfigEntryAuthFailed", "UpdateFailed", "HomevoltApiError", "ClientResponseError"}

\* The calls of the latest tick to endpoint e, and those that failed or succeeded.
Requests(e) == {i \in 1..Len(requested) : requested[i].endpoint = e}
WasRequested(e) == Requests(e) # {}
FailedRequests(e) == {i \in Requests(e) : requested[i].result # "ok"}
MetricsNodes(ok) ==
    {requested[i].node_id :
        i \in {j \in Requests("node_metrics") : (requested[j].result = "ok") = ok}}

\* The latest tick returned its snapshot, which is now stored.
Returned == pc = "idle" /\ outcome = "returned"

\* The latest tick is past the fetch-or-carry decision of tier e.
Positions == <<"ems", "status", "error_report", "nodes", "node_metrics",
               "schedule", "events", "return">>
PositionOf(p) == CHOOSE i \in 1..Len(Positions) : Positions[i] = p
Passed(e) == Returned \/ (pc # "idle" /\ PositionOf(pc) > PositionOf(e))

\* The fields and the endpoints of a tier.
TierFields(e) == IF e = "nodes" THEN {"nodes", "node_metrics"} ELSE {e}
TierEndpoints(e) == IF e = "nodes" THEN {"nodes", "node_metrics"} ELSE {e}

\* Field f of the stored snapshot is the object endpoint e returned in the
\* latest tick if e was requested, the previous snapshot's object otherwise.
FreshOrCarried(f, e) ==
    data[f] = IF WasRequested(e) THEN NewObj(e, poll_count) ELSE data_at_start[f]

\* The four aborting tiers of the stored snapshot are as fetched or carried.
AbortingTiersIntact ==
    /\ data.ems.ref = <<"ems", poll_count>>
    /\ FreshOrCarried("status", "status")
    /\ FreshOrCarried("error_report", "error_report")
    /\ FreshOrCarried("nodes", "nodes")

\* node_metrics of the stored snapshot: rebuilt from this tick's successful
\* metrics calls if the node tier was refreshed, the previous object otherwise.
NodeMetricsIntact ==
    IF WasRequested("nodes")
    THEN /\ data.node_metrics.ref = <<"node_metrics", poll_count>>
         /\ DOMAIN data.node_metrics.map = MetricsNodes(TRUE)
         /\ \A n \in MetricsNodes(TRUE) :
                data.node_metrics.map[n] = NewMetrics(n, poll_count)
    ELSE data.node_metrics = data_at_start.node_metrics

C2_ConnectionErrorRaisesUpdateFailed ==
    (last_call.result = "HomevoltConnectionError"
            /\ last_call.endpoint \in FatalEndpoints) =>
        /\ pc = "idle"
        /\ outcome = "UpdateFailed"
        /\ outcome # "ConfigEntryAuthFailed"
        /\ data = data_at_start

C2_Witness ==
    /\ last_call.result = "HomevoltConnectionError"
    /\ last_call.endpoint = "nodes"
    /\ outcome = "UpdateFailed"
    /\ data_at_start # None
    /\ data = data_at_start

(***************************************************************************)
(* C3.  As stated: when all 3 attempts of a fetch of telemetry, status,    *)
(* error_report or node_inventory return 502/503/504, the tick raises      *)
(* UpdateFailed and the stored snapshot is left unchanged.                 *)
(***************************************************************************)
C3_RetriesExhaustedRaisesUpdateFailed ==
    (/\ last_call.endpoint \in FatalEndpoints
     /\ last_call.attempts = 3
     /\ \A i \in 1..Len(last_call.resps) : last_call.resps[i] \in {"502", "503", "504"}) =>
        /\ pc = "idle"
        /\ outcome = "UpdateFailed"
        /\ data = data_at_start

(***************************************************************************)
(* C4.  As stated: in every run, aborted ticks included, a periodic tier   *)
(* that the tick reaches is requested on tick N exactly when N = 1 or      *)
(* N mod period = 0.                                                       *)
(***************************************************************************)
C4_RequestedIffFirstTickOrMultiple ==
    \A e \in PeriodicTiers :
        LET due == poll_count = 1 \/ poll_count % StatedPeriod(e) = 0 IN
        poll_count >= 1 =>
            /\ WasRequested(e) => due
            /\ (Passed(e) /\ due) => WasRequested(e)

\* C4, amended: a periodic tier that the tick reaches is requested on tick N
\* exactly when no snapshot is stored at the start of the tick (tick 1, and
\* every tick until one has returned) or N mod period = 0.
C4_RequestedIffNoSnapshotOrMultiple ==
    \A e \in PeriodicTiers :
        LET due == data_at_start = None \/ poll_count % StatedPeriod(e) = 0 IN
        poll_count >= 1 =>
            /\ WasRequested(e) => due
            /\ (Passed(e) /\ due) => WasRequested(e)

C4_Witness ==
    /\ poll_count = 2
    /\ data_at_start = None
    /\ Returned
    /\ \A e \in PeriodicTiers : WasRequested(e)

(***************************************************************************)
(* C5.  In a run with no failed fetch, each snapshot stored before the     *)
(* next tick: telemetry is fetched once on every tick; status,             *)
(* node_inventory and schedule exactly on tick 1 and on the multiples of   *)
(* 10; error_report exactly on tick 1 and on the multiples of 4.  After 12 *)
(* ticks: 12 telemetry, 2 status, 4 error_report; after 20: 3 status;      *)
(* after 8: 3 error_report.                                                *)
(***************************************************************************)
C5_StableRunFetchCounts ==
    (faults = 0 /\ pc = "idle" /\ poll_count >= 1) =>
        /\ fetch_count["ems"] = poll_count
        /\ Cardinality(Requests("ems")) = 1
        /\ \A e \in PeriodicTiers :
              /\ fetch_count[e] = Cardinality(TicksDue(e, poll_count))
              /\ Cardinality(Requests(e)) =
                    IF poll_count \in TicksDue(e, poll_count) THEN 1 ELSE 0
        /\ poll_count = 12 =>
              /\ fetch_count["ems"] = 12
              /\ fetch_count["status"] = 2
              /\ fetch_count["error_report"] = 4
        /\ poll_count = 20 => fetch_count["status"] = 3
        /\ poll_count = 8 => fetch_count["error_report"] = 3

C5_Witness ==
    /\ faults = 0
    /\ pc = "idle"
    /\ poll_count = 20
    /\ fetch_count["status"] = 3
    /\ fetch_count["error_report"] = 6

(***************************************************************************)
(* C6.  On a tick that has a previous snapshot and whose poll counter is   *)
(* not a multiple of a tier's period, the tier is not requested and the    *)
(* new snapshot holds, for each field of the tier, the very object of the  *)
(* previous snapshot.                                                      *)
(***************************************************************************)
C6_CarriedTierIsSameObject ==
    \A e \in PeriodicTiers :
        (poll_count >= 1 /\ data_at_start # None /\ poll_count % StatedPeriod(e) # 0) =>
            /\ \A x \in TierEndpoints(e) : ~WasRequested(x)
            /\ (pc # "idle" /\ Passed(e)) =>
                  \A f \in TierFields(e) : combined[f] = data_at_start[f]
            /\ Returned => \A f \in TierFields(e) : data[f] = data_at_start[f]

C6_Witness ==
    /\ Returned
    /\ poll_count = 11
    /\ data_at_start # None
    /\ data.status = NewObj("status", 10)
    /\ data.node_metrics.ref = <<"node_metrics", 10>>
    /\ DOMAIN data.node_metrics.map # {}
    /\ data.schedule # None

(***************************************************************************)
(* C7.  The poll counter is 0 on construction and goes up by exactly 1 at  *)
(* the start of every tick, whether the tick later returns or aborts; it   *)
(* changes at no other point, so after k invocations it equals k.          *)
(***************************************************************************)
C7_PollCountCountsTicks ==
    /\ poll_count = 0
    /\ [](poll_count = ticks)
    /\ [][/\ ticks' # ticks => poll_count' = poll_count + 1
          /\ poll_count' # poll_count =>
                /\ poll_count' = poll_count + 1
                /\ pc = "idle"
                /\ pc' = "ems"]_vars

C7_Witness ==
    /\ ticks = 3
    /\ poll_count = 3
    /\ pc = "idle"
    /\ outcome = "UpdateFailed"
    /\ faults = 2

(***************************************************************************)
(* C8.  The stored snapshot is written only by the single replacement that *)
(* ends a tick which did not abort; while a tick is in flight, and after a *)
(* tick that aborted or was abandoned, it equals its value at the start of *)
(* that tick.                                                              *)
(***************************************************************************)
C8_SnapshotWrittenOnlyAtReturn ==
    /\ []((pc # "idle" \/ outcome \in RaisedOutcomes \cup {"abandoned"}) =>
              data = data_at_start)
    /\ [][data' # data =>
              /\ pc = "return"
              /\ pc' = "idle"
              /\ outcome' = "returned"
              /\ data = data_at_start
              /\ data' = combined]_vars

C8_Witness ==
    /\ pc = "idle"
    /\ outcome = "abandoned"
    /\ Len(requested) >= 3
    /\ data_at_start # None
    /\ data = data_at_start

(***************************************************************************)
(* C9.  On a node-tier refresh tick in which the metrics fetch of a node   *)
(* fails (any exception), the tick raises nothing and its snapshot lacks   *)
(* that node in node_metrics, holds every node whose fetch succeeded, and  *)
(* has telemetry, status, error_report and node_inventory as fetched or    *)
(* carried.                                                                *)
(***************************************************************************)
C9_NodeMetricsFailureIsAbsorbed ==
    FailedRequests("node_metrics") # {} =>
        /\ outcome \notin RaisedOutcomes
        /\ Returned =>
              /\ \A n \in MetricsNodes(FALSE) : n \notin DOMAIN data.node_metrics.map
              /\ \A n \in MetricsNodes(TRUE) :
                    /\ n \in DOMAIN data.node_metrics.map
                    /\ data.node_metrics.map[n] = NewMetrics(n, poll_count)
              /\ AbortingTiersIntact
              /\ data.nodes = NewObj("nodes", poll_count)

C9_Witness ==
    /\ Returned
    /\ MetricsNodes(FALSE) = {5}
    /\ MetricsNodes(TRUE) = {2}
    /\ data_at_start # None
    /\ 5 \in DOMAIN data_at_start.node_metrics.map

(***************************************************************************)
(* C10.  On a tick where the schedule is due and its fetch fails (any      *)
(* exception), the tick raises nothing: the new snapshot's schedule is the *)
(* previous snapshot's schedule, or null when there is no previous         *)
(* snapshot, and every other tier is as fetched or carried.                *)
(***************************************************************************)
C10_ScheduleFailureIsAbsorbed ==
    FailedRequests("schedule") # {} =>
        /\ outcome \notin RaisedOutcomes
        /\ Returned =>
              /\ data.schedule =
                    IF data_at_start # None THEN data_at_start.schedule ELSE None
              /\ AbortingTiersIntact
              /\ NodeMetricsIntact

C10_Witness ==
    /\ Returned
    /\ FailedRequests("schedule") # {}
    /\ data_at_start # None
    /\ data.schedule = NewObj("schedule", 1)

C10_WitnessNoPrevious ==
    /\ Returned
    /\ FailedRequests("schedule") # {}
    /\ data_at_start = None
    /\ data.schedule = None

\* The event types and the telemetry list each reports on.
EventTypes == {"homevolt_alarm", "homevolt_warning", "homevolt_info"}
ListOf(t, ems) ==
    CASE t = "homevolt_alarm"   -> ems.alarm_str
      [] t = "homevolt_warning" -> ems.warning_str
      [] t = "homevolt_info"    -> ems.info_str
EventsOfType(t) == {i \in 1..Len(fired) : fired[i].type = t}

(***************************************************************************)
(* C11.  In a tick that has a previous snapshot, for each of the alarm,    *)
(* warning and info lists of the aggregated telemetry: exactly one event   *)
(* (homevolt_alarm / homevolt_warning / homevolt_info) carrying the        *)
(* previous and the current list is fired if the list of the new telemetry *)
(* differs from that of the previous snapshot, none if it is equal; a tick *)
(* with no previous snapshot fires no event.                               *)
(***************************************************************************)
C11_OneEventPerChangedList ==
    (pc = "return" \/ Returned) =>
        LET new == IF pc = "return" THEN combined ELSE data IN
        IF data_at_start = None
        THEN fired = <<>>
        ELSE \A t \in EventTypes :
                LET previous == ListOf(t, data_at_start.ems.val)
                    current  == ListOf(t, new.ems.val) IN
                IF previous # current
                THEN /\ Cardinality(EventsOfType(t)) = 1
                     /\ \A i \in EventsOfType(t) :
                            /\ fired[i].previous = previous
                            /\ fired[i].current = current
                ELSE EventsOfType(t) = {}

\* A tick that changed the warning list alone and fired one event for it.
C11_Witness ==
    /\ Returned
    /\ data_at_start # None
    /\ Len(fired) = 1
    /\ fired[1].type = "homevolt_warning"
    /\ data_at_start.ems.val.info_str = data.ems.val.info_str
    /\ data_at_start.ems.val.alarm_str = data.ems.val.alarm_str

\* The endpoint whose success fills field f of the snapshot: node_metrics is
\* rebuilt whenever the node inventory is fetched.
TierOf(f) == IF f = "node_metrics" THEN "nodes" ELSE f
OptionalFields == {"status", "error_report", "nodes", "node_metrics", "schedule"}
FetchedNow(f) == \E i \in Requests(TierOf(f)) : requested[i].result = "ok"

(***************************************************************************)
(* C12.  In every snapshot a tick returns, telemetry is non-null, and each *)
(* of status, error_report, node_inventory, node_metrics and schedule is   *)
(* null exactly when it was null (or there was no snapshot) before the     *)
(* tick and the tick did not fetch its tier successfully: a field stays    *)
(* null until first fetched and is never reset to null afterwards.         *)
(***************************************************************************)
C12_FieldsNullUntilFirstFetched ==
    Returned =>
        /\ data # None
        /\ data.ems # None
        /\ \A f \in OptionalFields :
              (data[f] = None) <=>
                  /\ data_at_start = None \/ data_at_start[f] = None
                  /\ ~FetchedNow(f)

\* A schedule that was null in the previous snapshot and is filled by this
\* tick's fetch, next to fields carried forward non-null.
C12_Witness ==
    /\ Returned
    /\ data_at_start # None
    /\ data_at_start.schedule = None
    /\ data.schedule # None
    /\ ~FetchedNow("error_report")
    /\ data.error_report # None

(***************************************************************************)
(* C16.  As stated: in a run with no failed fetch, for every N >= 1 the    *)
(* number of error_report fetches during ticks 1..N is                     *)
(* 1 + floor((N-1)/4).                                                     *)
(***************************************************************************)
C16_ErrorReportCountAsStated ==
    (faults = 0 /\ pc = "idle" /\ poll_count >= 1) =>
        fetch_count["error_report"] = 1 + ((poll_count - 1) \div 4)

(***************************************************************************)
(* C16, amended.  In a run with no failed fetch, for every N >= 1 the      *)
(* number of error_report fetches during ticks 1..N is 1 + floor(N/4):     *)
(* one on tick 1 and one on every multiple of 4.                           *)
(***************************************************************************)
C16_ErrorReportCount ==
    (faults = 0 /\ pc = "idle" /\ poll_count >= 1) =>
        fetch_count["error_report"] = 1 + (poll_count \div 4)

\* Tick 4 has just fetched error_report for the second time.
C16_Witness ==
    /\ faults = 0
    /\ Returned
    /\ poll_count = 4
    /\ WasRequested("error_report")
    /\ fetch_count["error_report"] = 2

\* The stages of a tick in the stated order, and the place of a node in the
\* sensor list of the tick's telemetry.
StageOf(e) ==
    CASE e = "ems" -> 1 [] e = "status" -> 2 [] e = "error_report" -> 3
      [] e = "nodes" -> 4 [] e = "node_metrics" -> 5 [] e = "schedule" -> 6
TickTelemetry == IF pc = "idle" THEN data.ems.val ELSE combined.ems.val
PlaceInSensors(n) ==
    CHOOSE k \in 1..Len(TickTelemetry.sensors) : TickTelemetry.sensors[k].node_id = n

\* The requests of the latest tick so far respect the stated order.
RequestsInOrder ==
    /\ requested # <<>> => requested[1].endpoint = "ems"
    /\ \A i, j \in 1..Len(requested) :
          i < j =>
            /\ StageOf(requested[i].endpoint) <= StageOf(requested[j].endpoint)
            /\ StageOf(requested[i].endpoint) = StageOf(requested[j].endpoint) =>
                  requested[i].endpoint = "node_metrics"
    /\ (Returned \/ (pc # "idle" /\ combined # None)) =>
          \A i, j \in Requests("node_metrics") :
              i < j => PlaceInSensors(requested[i].node_id)
                          < PlaceInSensors(requested[j].node_id)
    /\ \A i \in 1..Len(requested) :
          (requested[i].endpoint \in FatalEndpoints /\ requested[i].result # "ok")
              => i = Len(requested)

\* Within a tick a step issues at most one request, after those issued before.
OneRequestAtATime ==
    pc # "idle" =>
        \/ requested' = requested
        \/ /\ Len(requested') = Len(requested) + 1
           /\ SubSeq(requested', 1, Len(requested)) = requested

(***************************************************************************)
(* C20.  Within one tick the requests are issued one at a time in the      *)
(* order telemetry, status, error_report, node_inventory, per-node metrics *)
(* (in the order of the telemetry's sensor list), schedule; each endpoint  *)
(* but the per-node metrics is requested at most once, and a failed        *)
(* request of telemetry, status, error_report or node_inventory is the     *)
(* last request of its tick.                                               *)
(***************************************************************************)
C20_RequestsInFixedOrder == [](RequestsInOrder) /\ [][OneRequestAtATime]_vars

\* A tick that requested every endpoint, two nodes' metrics among them.
C20_Witness ==
    /\ Returned
    /\ Len(requested) = 7
    /\ Cardinality(Requests("node_metrics")) = 2
    /\ WasRequested("schedule")

\* The outcomes of an attempt after which the transport tries again, and the
\* outcome of the last attempt a finished call made.
Retryable == {"502", "503", "504", "ClientConnectionError", "TimeoutError"}
CallDone == ret.of = "request"
Final == arg.script[ret.attempts]

(***************************************************************************)
(* C13.  A transport call makes at most 3 attempts; it goes on to another  *)
(* attempt exactly after a retryable status (502/503/504) or a connection  *)
(* error on attempt 1 or 2, sleeping 2 s after attempt 1 and 4 s after     *)
(* attempt 2 whichever of the two it was; nothing is slept after the last  *)
(* attempt, so a call that exhausts its retries has slept twice and a call *)
(* that succeeds on attempt k has slept k-1 times.                         *)
(***************************************************************************)
C13_AtMostThreeAttemptsWithBackoff ==
    CallDone =>
        /\ ret.attempts \in 1..3
        /\ \A i \in 1..(ret.attempts - 1) : arg.script[i] \in Retryable
        /\ ret.attempts < 3 => Final \notin Retryable
        /\ Len(ret.sleeps) = ret.attempts - 1
        /\ \A i \in 1..Len(ret.sleeps) : ret.sleeps[i] = IF i = 1 THEN 2 ELSE 4
        /\ (ret.attempts = 3 /\ Final \in Retryable) => ret.sleeps = <<2, 4>>
        /\ ret.result = "ok" => Len(ret.sleeps) = ret.attempts - 1

\* A retryable status, then a timeout, then a connection error: retries
\* exhausted after the sleeps of 2 s and 4 s.
C13_Witness ==
    /\ CallDone
    /\ arg.script = <<"503", "TimeoutError", "ClientConnectionError">>
    /\ ret.attempts = 3
    /\ ret.sleeps = <<2, 4>>

(***************************************************************************)
(* C14.  A 401 is never retried: on whichever attempt a call receives a    *)
(* 401, that attempt is its last, the call raises HomevoltAuthError, and   *)
(* the only sleeps are those that preceded the attempt.                    *)
(***************************************************************************)
C14_AuthErrorIsNeverRetried ==
    CallDone =>
        \A i \in 1..ret.attempts :
            arg.script[i] = "401" =>
                /\ ret.attempts = i
                /\ ret.result = "HomevoltAuthError"
                /\ Len(ret.sleeps) = i - 1

\* A 401 received on the third attempt.
C14_Witness ==
    /\ CallDone
    /\ arg.script[1] = "504"
    /\ arg.script[2] = "ClientConnectionError"
    /\ arg.script[3] = "401"
    /\ ret.attempts = 3
    /\ ret.result = "HomevoltAuthError"

\* Every attempt before the last met a retryable failure, and a call whose
\* last attempt met one had no attempt left.
RetriedAsFarAsAllowed ==
    /\ ret.attempts \in 1..3
    /\ \A i \in 1..(ret.attempts - 1) : arg.script[i] \in Retryable
    /\ Final \in Retryable => ret.attempts = 3

(***************************************************************************)
(* C15.  As stated: for every sequence of attempt outcomes a call ends in  *)
(* exactly one of the payload (its last attempt returned 2xx),             *)
(* HomevoltAuthError (a 401 was received), HomevoltConnectionError (all 3  *)
(* attempts failed, the third by a network failure or timeout) or          *)
(* HomevoltApiError (all 3 attempts failed, the third with 502/503/504).   *)
(***************************************************************************)
C15_FourOutcomes ==
    CallDone =>
        /\ RetriedAsFarAsAllowed
        /\ ret.result \in {"ok", "HomevoltAuthError", "HomevoltConnectionError",
                            "HomevoltApiError"}
        /\ ret.result = "ok" <=> Final = "200"
        /\ ret.result = "HomevoltAuthError" <=> Final = "401"
        /\ ret.result = "HomevoltConnectionError" <=>
              (ret.attempts = 3 /\ Final \in {"ClientConnectionError", "TimeoutError"})
        /\ ret.result = "HomevoltApiError" <=>
              (ret.attempts = 3 /\ Final \in {"502", "503", "504"})

(***************************************************************************)
(* C15, amended.  For every sequence of attempt outcomes a call ends in    *)
(* exactly one of the payload, HomevoltAuthError, HomevoltConnectionError  *)
(* and HomevoltApiError as stated, or, when an attempt returns an error    *)
(* status other than 401/502/503/504 (404, 500), in the HTTP library's     *)
(* ClientResponseError, raised at once without a retry; a retryable        *)
(* failure on attempt 1 or 2 followed by a 2xx yields the payload.         *)
(***************************************************************************)
C15_FiveOutcomes ==
    CallDone =>
        /\ RetriedAsFarAsAllowed
        /\ ret.result \in {"ok", "HomevoltAuthError", "HomevoltConnectionError",
                            "HomevoltApiError", "ClientResponseError"}
        /\ ret.result = "ok" <=> Final = "200"
        /\ ret.result = "HomevoltAuthError" <=> Final = "401"
        /\ ret.result = "HomevoltConnectionError" <=>
              (ret.attempts = 3 /\ Final \in {"ClientConnectionError", "TimeoutError"})
        /\ ret.result = "HomevoltApiError" <=>
              (ret.attempts = 3 /\ Final \in {"502", "503", "504"})
        /\ ret.result = "ClientResponseError" <=> Final \in {"404", "500"}
        /\ \A i \in 2..3 :
              ((\A j \in 1..(i - 1) : arg.script[j] \in Retryable) /\ arg.script[i] = "200")
                  => (ret.result = "ok" /\ ret.attempts = i)

\* A 404 met on the retry that follows a retryable failure.
C15_Witness ==
    /\ CallDone
    /\ arg.script[1] = "ClientConnectionError"
    /\ arg.script[2] = "404"
    /\ ret.attempts = 2
    /\ ret.result = "ClientResponseError"

\* The first refresh met a connection error on a fetch whose failure aborts.
FirstRefreshConnectionError ==
    /\ ticks = 1
    /\ pc = "idle"
    /\ \E i \in 1..Len(requested) :
          /\ requested[i].endpoint \in FatalEndpoints
          /\ requested[i].result = "HomevoltConnectionError"

(***************************************************************************)
(* C17.  async_setup_entry stores the coordinator on the entry and then    *)
(* forwards the platforms and registers the update listener only after the *)
(* first refresh has returned a snapshot; if the first refresh fails with  *)
(* a connection error, setup raises ConfigEntryNotReady and leaves         *)
(* runtime_data unset, no platform forwarded and no listener registered.   *)
(***************************************************************************)
C17_EntryTouchedOnlyAfterFirstRefresh ==
    /\ (setup.runtime_data # "unset" \/ setup.forwarded \/ setup.listener) =>
          /\ ticks = 1
          /\ outcome = "returned"
          /\ data # None
    /\ setup.forwarded => setup.runtime_data = "coordinator"
    /\ setup.listener => setup.forwarded
    /\ setup.result = "True" =>
          (setup.runtime_data = "coordinator" /\ setup.forwarded /\ setup.listener)
    /\ (setup.pc = "done" /\ FirstRefreshConnectionError) =>
          /\ setup.result = "ConfigEntryNotReady"
          /\ setup.runtime_data = "unset"
          /\ ~setup.forwarded
          /\ ~setup.listener

\* Setup has ended after a first refresh whose status fetch could not connect.
C17_Witness ==
    /\ setup.pc = "done"
    /\ FirstRefreshConnectionError
    /\ requested[Len(requested)].endpoint = "status"
    /\ setup.result = "ConfigEntryNotReady"

\* The entries of the looked-up schedule, those whose interval contains now,
\* and the entries the stated rule chooses among.
LookupDone == ret.of = "lookup"
EntriesOf(schedule) ==
    IF schedule = None THEN {} ELSE {schedule.entries[i] : i \in DOMAIN schedule.entries}
CurrentEntries == {e \in EntriesOf(arg.schedule) : e.from_ts <= arg.now /\ arg.now < e.to_ts}
NextCandidates ==
    {e \in EntriesOf(arg.schedule) :
        /\ e.from_ts >= arg.now
        /\ \A c \in CurrentEntries : e.type # c.type \/ e.setpoint # c.setpoint}
EarliestCandidateReturned ==
    IF NextCandidates = {}
    THEN ret.value = NoEntry
    ELSE /\ ret.value \in NextCandidates
         /\ \A e \in NextCandidates : ret.value.from_ts <= e.from_ts
SortedByFromTs(schedule) ==
    schedule # None =>
        \A i, j \in DOMAIN schedule.entries :
            i < j => schedule.entries[i].from_ts <= schedule.entries[j].from_ts

(***************************************************************************)
(* C19.  For any schedule (entries in any list order) and any time now     *)
(* with at most one entry whose interval [from_ts, to_ts) contains now     *)
(* (the current entry): the lookup returns an entry with the smallest      *)
(* from_ts among the entries with from_ts >= now whose type or setpoint    *)
(* differs from the current entry (among all entries with from_ts >= now   *)
(* if there is no current entry), and nothing if there is no such entry.   *)
(***************************************************************************)
C19_NextIsEarliestDiffering ==
    (LookupDone /\ arg.now_inner = arg.now /\ Cardinality(CurrentEntries) <= 1) =>
        EarliestCandidateReturned

\* The same on the schedules whose entries are listed by ascending from_ts.
C19_NextIsEarliestDifferingIfSorted ==
    (/\ LookupDone
     /\ arg.now_inner = arg.now
     /\ Cardinality(CurrentEntries) <= 1
     /\ SortedByFromTs(arg.schedule)) =>
        EarliestCandidateReturned

\* The zero of each scalar type, and a payload that holds a JSON null where
\* an object is expected (which is no partially-shaped payload).
DecodeDone == ret.of = "decode"
Zero(type) ==
    CASE type = "int"   -> 0
      [] type = "float" -> 0
      [] type = "str"   -> ""
      [] type = "bool"  -> FALSE
      [] type = "list"  -> <<>>
RECURSIVE HoldsNull(_, _)
HoldsNull(cls, raw) ==
    \/ raw = Null
    \/ \E i \in DOMAIN FromDictArgs(cls) :
          LET a == FromDictArgs(cls)[i] IN
          /\ a.key \in DOMAIN raw
          /\ \/ a.kind = "from_dict" /\ HoldsNull(a.of, raw[a.key])
             \/ a.kind = "list" /\ \E j \in DOMAIN raw[a.key] : HoldsNull(a.of, raw[a.key][j])

(***************************************************************************)
(* C18.  Every response decoder is total on the payloads that hold any     *)
(* subset of the expected keys, nested structures absent or partial        *)
(* included: decoding raises nothing and returns a record with every       *)
(* declared field, in which each field whose key is absent is the zero of  *)
(* its type (0, empty string, empty list, false) or, for a nested          *)
(* structure, the all-defaults record of the nested class; the empty       *)
(* payload decodes to the all-defaults record.                             *)
(***************************************************************************)
C18_DecodersAreTotalWithZeroDefaults ==
    (DecodeDone /\ ~HoldsNull(arg.cls, arg.raw)) =>
        /\ ~ret.raised
        /\ DOMAIN ret.value = Names(Declared(arg.cls))
        /\ \A i \in DOMAIN FromDictArgs(arg.cls) :
              LET a == FromDictArgs(arg.cls)[i]
                  f == Entry(Declared(arg.cls), a.name) IN
              a.key \notin DOMAIN arg.raw =>
                  IF f.type = "object"
                  THEN ret.value[a.name] = New(f.factory)
                  ELSE ret.value[a.name] = Zero(f.type)
        /\ arg.raw = EmptyDict => ret.value = New(arg.cls)

\* An EmsDevice payload holding a scalar and a partial ems_data, every other
\* key and nested structure absent.
C18_Witness ==
    /\ DecodeDone
    /\ arg.cls = "EmsDevice"
    /\ DOMAIN arg.raw = {"ecu_id", "ems_data"}
    /\ DOMAIN arg.raw["ems_data"] = {"timestamp_ms"}
    /\ ~ret.raised
    /\ ret.value["ecu_id"] = 7
    /\ ret.value["ems_data"]["timestamp_ms"] = 7
    /\ ret.value["ems_data"]["power"] = 0
    /\ ret.value["ems_info"] = New("EmsInfo")
    /\ ret.value["bms_info"] = <<>>

\* The sensors the statement names: identity configured, node declared.
StatedQualifying(sensor) ==
    /\ sensor.euid # ""
    /\ sensor.euid # "0000000000000000"
    /\ sensor.node_id # 0
NodeIds(sensors) == [i \in DOMAIN sensors |-> sensors[i].node_id]
IsNodeMetrics(request) == request.endpoint = "node_metrics"

\* The nodes whose metrics the latest tick has requested so far, in order.
MetricsRequested == NodeIds(SelectSeq(requested, IsNodeMetrics))

\* The telemetry of the tick is in hand (the tick is past its first fetch).
HasTelemetry == Returned \/ (pc # "idle" /\ combined # None)

(***************************************************************************)
(* C21.  On a node-tier refresh tick the node metrics are requested        *)
(* exactly for the sensors of this tick's telemetry whose euid is          *)
(* non-empty and not "0000000000000000" and whose node_id is non-zero,     *)
(* once per such sensor, and only after the node_inventory fetch of the    *)
(* tick succeeded; a tick that carries the node tier forward requests no   *)
(* node metrics.                                                           *)
(***************************************************************************)
C21_MetricsRequestedForQualifyingSensors ==
    /\ \A i \in Requests("node_metrics") :
          \E j \in Requests("nodes") : j < i /\ requested[j].result = "ok"
    /\ ~WasRequested("nodes") => MetricsRequested = <<>>
    /\ (HasTelemetry /\ WasRequested("nodes") /\ FailedRequests("nodes") = {}) =>
          LET stated == NodeIds(SelectSeq(TickTelemetry.sensors, StatedQualifying)) IN
          IF pc = "node_metrics"
          THEN MetricsRequested \o NodeIds(pending) = stated
          ELSE (Passed("node_metrics") \/ pc = "schedule") => MetricsRequested = stated

\* A later node-tier refresh that asked for nodes 2 and 5 out of five sensors.
C21_Witness ==
    /\ Returned
    /\ data_at_start # None
    /\ WasRequested("nodes")
    /\ Len(TickTelemetry.sensors) = 5
    /\ MetricsRequested = <<2, 5>>

\* The latest tick was aborted by a connection failure, and another tick fits
\* the bound of the model.
AbortedByConnectionFailure ==
    /\ pc = "idle"
    /\ outcome = "UpdateFailed"
    /\ last_call.result = "HomevoltConnectionError"
    /\ poll_count < MaxScheduledTicks

\* The step a tick takes from its start is the telemetry request.
StartsWithTelemetry ==
    pc = "ems" =>
        /\ Len(requested') = 1
        /\ requested'[1].endpoint = "ems"

\* A finished tick whose telemetry, status, error_report and node_inventory
\* fetches all succeeded has returned its snapshot, which is the stored one.
SucceededTickIsStored ==
    (/\ pc = "idle"
     /\ poll_count >= 1
     /\ outcome # "abandoned"
     /\ \A e \in FatalEndpoints : FailedRequests(e) = {}) =>
        /\ outcome = "returned"
        /\ data # None
        /\ data.ems.ref = <<"ems", poll_count>>

(***************************************************************************)
(* C22.  A connection failure is not terminal: after a tick aborted by a   *)
(* connection failure the scheduler's next tick starts and its first step  *)
(* requests telemetry again, however many ticks aborted before; a tick     *)
(* whose telemetry, status, error_report and node_inventory fetches all    *)
(* succeed returns a snapshot, which is stored; hence, with ticks          *)
(* scheduled fairly and a device that eventually answers, a snapshot is    *)
(* eventually stored.                                                      *)
(***************************************************************************)
C22_ConnectionFailureIsNotTerminal ==
    /\ AbortedByConnectionFailure ~> (pc = "ems")
    /\ [][StartsWithTelemetry]_vars
    /\ []SucceededTickIsStored
    /\ <>(data # None)

\* The first snapshot is stored by the third tick, after two aborted ones.
C22_Witness ==
    /\ Returned
    /\ poll_count = 3
    /\ data_at_start = None
    /\ faults = MaxFaults
    /\ data.ems.ref = <<"ems", 3>>

\* The fields of a snapshot, and the tick that allocated an object.
SnapshotFields == {"ems", "status", "error_report", "nodes", "node_metrics", "schedule"}
RefTick(obj) == obj.ref[Len(obj.ref)]

\* The tick that returned the stored snapshot is not later than this one.
LastFinishedTick == IF pc = "idle" THEN poll_count ELSE poll_count - 1

\* Every object of the stored snapshot was allocated by the tick that
\* returned it or by an earlier one.
StoredObjectsAreOld ==
    data # None => \A f \in SnapshotFields : RefTick(data[f]) <= LastFinishedTick

\* An object the snapshot under construction shares with the stored one, and
\* one the stored snapshot shares with the one before it, reads the same
\* from both.
SharedObjectsUnwritten ==
    /\ (pc # "idle" /\ combined # None /\ data # None) =>
          \A f \in SnapshotFields : combined[f].ref = data[f].ref => combined[f] = data[f]
    /\ (pc = "idle" /\ data # None /\ data_at_start # None) =>
          \A f \in SnapshotFields :
              data[f].ref = data_at_start[f].ref => data[f] = data_at_start[f]

\* A step that changes an object in place (same object, other contents)
\* changes node_metrics, and the object is one this tick allocated.
WritesGoToThisTick ==
    (combined # None /\ combined' # None) =>
        \A f \in SnapshotFields :
            (combined'[f].ref = combined[f].ref /\ combined'[f] # combined[f]) =>
                /\ f = "node_metrics"
                /\ RefTick(combined[f]) = poll_count

(***************************************************************************)
(* C23.  A returned snapshot is never modified by a later tick: while a    *)
(* tick is in flight the stored snapshot is the one stored at its start,   *)
(* every object it holds was allocated by the tick that returned it or     *)
(* earlier, and every write of a tick (a field of the snapshot under       *)
(* construction, an entry of node_metrics) goes to an object that this     *)
(* tick allocated; so whoever holds the snapshot of tick K reads the same  *)
(* values from it after any number of later ticks, returned or aborted.    *)
(***************************************************************************)
C23_ReturnedSnapshotIsNeverModified ==
    /\ [](pc # "idle" => data = data_at_start)
    /\ []StoredObjectsAreOld
    /\ []SharedObjectsUnwritten
    /\ [][WritesGoToThisTick]_vars

\* The node tier is rebuilt while the previous snapshot holds the metrics of
\* nodes 2 and 5: the write of node 2 goes to the new dict.
C23_Witness ==
    /\ pc = "node_metrics"
    /\ data # None
    /\ DOMAIN data.node_metrics.map = {2, 5}
    /\ DOMAIN combined.node_metrics.map = {2}
    /\ combined.node_metrics.ref # data.node_metrics.ref

\* Field f of snapshot s holds an object that a successful fetch of endpoint
\* f returned in some tick so far.
CameFromFetch(s, f) ==
    /\ s[f] # None
    /\ s[f].ref[1] = f
    /\ RefTick(s[f]) \in 1..poll_count

\* A tick that started with no snapshot stored requests every tier it gets to.
FirstSnapshotRequestsEveryTier ==
    (poll_count >= 1 /\ data_at_start = None) =>
        \A e \in PeriodicTiers : Passed(e) => WasRequested(e)

\* A failed fetch of one of the four ends the tick, and nothing is stored.
FailedFetchAborts ==
    \A e \in FatalEndpoints :
        FailedRequests(e) # {} =>
            /\ pc = "idle"
            /\ outcome \in RaisedOutcomes
            /\ data = data_at_start

(***************************************************************************)
(* C24.  Every stored snapshot holds telemetry, status, error_report and   *)
(* node_inventory values that came from a successful fetch: a tick with no *)
(* previous snapshot requests every tier whatever the poll counter, and a  *)
(* failure of any of these four fetches aborts it; so status and           *)
(* node_inventory are never null in a stored snapshot, and schedule is the *)
(* only tier that can be null in one.                                      *)
(***************************************************************************)
C24_StoredSnapshotHoldsFetchedTiers ==
    /\ FirstSnapshotRequestsEveryTier
    /\ FailedFetchAborts
    /\ data # None =>
          /\ \A f \in FatalEndpoints : CameFromFetch(data, f)
          /\ \A f \in SnapshotFields \ {"schedule"} : data[f] # None

\* The first snapshot is stored on tick 2, whose schedule fetch failed: every
\* tier was requested although 2 is no multiple of a period, and the
\* schedule is null.
C24_Witness ==
    /\ Returned
    /\ poll_count = 2
    /\ data_at_start = None
    /\ \A e \in PeriodicTiers : WasRequested(e)
    /\ data.schedule = None
    /\ data.status = NewObj("status", 2)
    /\ data.nodes = NewObj("nodes", 2)

\* The latest tick ended without returning a snapshot.
Aborted == pc = "idle" /\ outcome \in RaisedOutcomes \cup {"abandoned"}

\* One or more ticks between the one that stored the previous snapshot and
\* the latest one stored nothing.
TicksBetweenAborted ==
    /\ data_at_start # None
    /\ RefTick(data_at_start.ems) < poll_count - 1

(***************************************************************************)
(* C25.  Events are fired only in a tick that returns a snapshot: none is  *)
(* fired before the comparison that ends the tick, and a tick that aborts  *)
(* fires none.  The comparison is against the last stored snapshot: when   *)
(* one or more ticks aborted since it was stored, the next tick that       *)
(* returns fires exactly one event for each list that differs from the     *)
(* stored snapshot's, with `previous` the stored snapshot's list and       *)
(* `current` the new one, and none for a list that is equal.               *)
(***************************************************************************)
C25_EventsOnlyInReturningTickAgainstStored ==
    /\ (Aborted \/ pc \notin {"idle", "return"}) => fired = <<>>
    /\ (Returned /\ TicksBetweenAborted) =>
          \A t \in EventTypes :
              LET previous == ListOf(t, data_at_start.ems.val)
                  current  == ListOf(t, data.ems.val) IN
              IF previous # current
              THEN /\ Cardinality(EventsOfType(t)) = 1
                   /\ \A i \in EventsOfType(t) :
                          /\ fired[i].previous = previous
                          /\ fired[i].current = current
              ELSE EventsOfType(t) = {}

\* Tick 1 stored a snapshot without alarm, ticks 2 and 3 aborted, tick 4
\* returns with an alarm and fires the one alarm event.
C25_Witness ==
    /\ Returned
    /\ poll_count = 4
    /\ data_at_start.ems.ref = <<"ems", 1>>
    /\ data_at_start.ems.val.alarm_str = <<>>
    /\ fired = <<Event("homevolt_alarm", <<>>, <<"BMS_OVER_VOLTAGE">>)>>

\* The latest multiple of tier e's period that is not after the latest tick.
LastMultiple(e) == poll_count - (poll_count % StatedPeriod(e))

\* A snapshot exists, and the refresh of tier e due at the latest multiple of
\* its period is in no stored snapshot: the tick of that multiple stored
\* nothing of it.
RefreshMissed(e) ==
    /\ data_at_start # None
    /\ LastMultiple(e) >= StatedPeriod(e)
    /\ RefTick(data_at_start[e]) < LastMultiple(e)

(***************************************************************************)
(* C26.  A refresh missed because of an aborted tick is not made up.  The  *)
(* poll counter advances on every tick, aborted ones included, and once a  *)
(* snapshot exists a tier is requested exactly on the multiples of its     *)
(* period: after the tick at a multiple N stored nothing, the ticks        *)
(* N+1 .. N+period-1 do not request the tier and carry the stale object    *)
(* forward unchanged, and the tick N+period requests it.                   *)
(***************************************************************************)
C26_MissedRefreshIsNotMadeUp ==
    /\ poll_count = ticks
    /\ \A e \in PeriodicTiers :
          (poll_count >= 1 /\ data_at_start # None) =>
              LET due == poll_count % StatedPeriod(e) = 0 IN
              /\ WasRequested(e) => due
              /\ (Passed(e) /\ due) => WasRequested(e)
              /\ (RefreshMissed(e) /\ ~due) =>
                    /\ \A x \in TierEndpoints(e) : ~WasRequested(x)
                    /\ (pc # "idle" /\ Passed(e)) =>
                          \A f \in TierFields(e) : combined[f] = data_at_start[f]
                    /\ Returned =>
                          \A f \in TierFields(e) :
                              /\ data[f] = data_at_start[f]
                              /\ RefTick(data[f]) < LastMultiple(e)

\* Tick 10 aborted; ticks 11 to 19 carried the status of tick 1; tick 20
\* requests it.
C26_Witness ==
    /\ Returned
    /\ poll_count = 20
    /\ data_at_start.status = NewObj("status", 1)
    /\ data_at_start.ems.ref = <<"ems", 19>>
    /\ data.status = NewObj("status", 20)

\* The nodes of the qualifying sensors of the latest tick's telemetry.
QualifyingNodes ==
    {TickTelemetry.sensors[i].node_id :
        i \in {k \in DOMAIN TickTelemetry.sensors :
                  StatedQualifying(TickTelemetry.sensors[k])}}

\* node_metrics of snapshot s holds exactly the nodes whose metrics the
\* latest tick fetched, each with the object of that fetch, in a dict of
\* this tick.
RebuiltFromThisTick(s) ==
    /\ s.node_metrics.ref = <<"node_metrics", poll_count>>
    /\ DOMAIN s.node_metrics.map = MetricsNodes(TRUE)
    /\ \A n \in MetricsNodes(TRUE) : s.node_metrics.map[n] = NewMetrics(n, poll_count)

(***************************************************************************)
(* C27.  node_metrics is rebuilt from empty on every node-tier refresh     *)
(* tick: it is empty when the loop over the sensors starts, and after the  *)
(* tick its key set is exactly the set of qualifying nodes whose metrics   *)
(* fetch succeeded in that tick; the metrics a node had in the previous    *)
(* snapshot are not carried forward when its fetch fails or when it no     *)
(* longer qualifies.                                                       *)
(***************************************************************************)
C27_NodeMetricsRebuiltOnRefresh ==
    (WasRequested("nodes") /\ FailedRequests("nodes") = {}) =>
        /\ (pc # "idle" /\ ~WasRequested("node_metrics")) =>
              combined.node_metrics.map = <<>>
        /\ (pc \in {"schedule", "events", "return"}) => RebuiltFromThisTick(combined)
        /\ Returned =>
              /\ RebuiltFromThisTick(data)
              /\ DOMAIN data.node_metrics.map \subseteq QualifyingNodes
              /\ data_at_start # None =>
                    \A n \in DOMAIN data_at_start.node_metrics.map :
                        (n \in MetricsNodes(FALSE) \/ n \notin QualifyingNodes) =>
                            n \notin DOMAIN data.node_metrics.map

\* The previous snapshot held the metrics of nodes 2 and 5; in the refresh
\* node 2 no longer qualifies and the fetch of node 5 fails: nothing is left.
C27_Witness ==
    /\ Returned
    /\ data_at_start # None
    /\ DOMAIN data_at_start.node_metrics.map = {2, 5}
    /\ QualifyingNodes = {5}
    /\ MetricsNodes(FALSE) = {5}
    /\ data.node_metrics.map = <<>>

\* A step that fires events is the comparison step of a tick: it leaves the
\* stored snapshot alone, which is the one the tick started with, and every
\* event it fires carries that snapshot's list as `previous`.
FiresBeforeStoring ==
    (fired' # fired /\ fired' # <<>>) =>
        /\ pc = "events"
        /\ pc' = "return"
        /\ data # None
        /\ data' = data
        /\ data = data_at_start
        /\ \A i \in 1..Len(fired') :
              fired'[i].previous = ListOf(fired'[i].type, data'.ems.val)

\* The step that replaces the stored snapshot is the return, and it fires
\* nothing.
StoresAfterFiring ==
    data' # data =>
        /\ pc = "return"
        /\ fired' = fired

\* Events were fired and the tick has not returned yet.
FiredNotReturned == pc = "return" /\ fired # <<>>

(***************************************************************************)
(* C28.  Within a tick that returns, the events are fired before the tick  *)
(* returns, that is before the new snapshot replaces the stored one: at    *)
(* the moment an event is fired, and until the return, the stored snapshot *)
(* is still the previous one, whose list equals the event's `previous`.    *)
(***************************************************************************)
C28_EventsFiredBeforeSnapshotReplaced ==
    /\ [][FiresBeforeStoring]_vars
    /\ [][StoresAfterFiring]_vars
    /\ [](FiredNotReturned =>
            /\ data = data_at_start
            /\ data # combined
            /\ \A i \in 1..Len(fired) :
                  /\ fired[i].previous = ListOf(fired[i].type, data.ems.val)
                  /\ fired[i].current = ListOf(fired[i].type, combined.ems.val))

\* Two events are out and the stored snapshot is still the previous one.
C28_Witness ==
    /\ FiredNotReturned
    /\ Len(fired) = 2
    /\ data = data_at_start
    /\ fired[1].previous = data.ems.val.warning_str
    /\ fired[1].current # data.ems.val.warning_str

\* The statuses the transport client has no branch for, and the response
\* that ended the latest transport call.
OtherErrorStatuses == {"404", "500"}
LastResponse == last_call.resps[last_call.attempts]
HitByOtherErrorStatus ==
    /\ last_call.attempts >= 1
    /\ LastResponse \in OtherErrorStatuses

(***************************************************************************)
(* C29.  A response whose status is an error other than 401, 502, 503 or   *)
(* 504 (404, 500) ends the transport call on that attempt: no further      *)
(* attempt and no sleep follow it, and the error raised is none of         *)
(* HomevoltAuthError, HomevoltConnectionError or HomevoltApiError.  A tick *)
(* hit by it on telemetry, status, error_report or node_inventory aborts   *)
(* raising neither ConfigEntryAuthFailed nor UpdateFailed and leaves the   *)
(* stored snapshot unchanged.                                              *)
(***************************************************************************)
C29_OtherErrorStatusEndsCallAndTick ==
    HitByOtherErrorStatus =>
        /\ last_call.attempts = Len(last_call.resps)
        /\ Len(last_call.sleeps) = last_call.attempts - 1
        /\ \A i \in 1..(last_call.attempts - 1) : last_call.resps[i] \in Retryable
        /\ last_call.result \notin
              {"ok", "HomevoltAuthError", "HomevoltConnectionError", "HomevoltApiError"}
        /\ last_call.endpoint \in FatalEndpoints =>
              /\ pc = "idle"
              /\ outcome \notin {"returned", "ConfigEntryAuthFailed", "UpdateFailed"}
              /\ outcome = last_call.result
              /\ data = data_at_start

\* A status fetch answered 503 and then 500 on a tick with a snapshot stored.
C29_Witness ==
    /\ last_call.endpoint = "status"
    /\ last_call.resps = <<"503", "500">>
    /\ last_call.sleeps = <<2>>
    /\ pc = "idle"
    /\ outcome = "ClientResponseError"
    /\ data_at_start # None
    /\ data = data_at_start

\* The number of qualifying sensors in the telemetry of the latest tick, 0
\* when the tick got no telemetry.
QualifyingCount ==
    IF HasTelemetry
    THEN Len(SelectSeq(TickTelemetry.sensors, StatedQualifying))
    ELSE 0

\* The latest transport call stayed within 3 attempts and 2 sleeps.
CallWithinBudget ==
    /\ last_call.attempts <= 3
    /\ Len(last_call.sleeps) <= 2
    /\ Len(last_call.sleeps) <= last_call.attempts

\* The latest tick stayed within 5 + k transport calls.
TickWithinBudget ==
    /\ Cardinality(Requests("ems")) <= 1
    /\ \A e \in PeriodicTiers : Cardinality(Requests(e)) <= 1
    /\ Cardinality(Requests("node_metrics")) <= QualifyingCount
    /\ Len(requested) <= 5 + QualifyingCount

\* The latest tick has ended, by returning a snapshot or by raising.
TickEnded == pc = "idle" /\ outcome \in {"returned"} \cup RaisedOutcomes

(***************************************************************************)
(* C30.  Every tick terminates when each HTTP attempt terminates: a        *)
(* transport call ends after at most 3 attempts and 2 sleeps; a tick       *)
(* issues at most 5 + k transport calls, k being the number of qualifying  *)
(* sensors of its telemetry (1 telemetry, at most 1 each of status,        *)
(* error_report, node_inventory and schedule, at most k node metrics); and *)
(* a tick in flight ends, by returning a snapshot or by raising.           *)
(***************************************************************************)
C30_TickTerminatesWithinBudget ==
    /\ []CallWithinBudget
    /\ []TickWithinBudget
    /\ (pc # "idle") ~> TickEnded

\* A tick that made all 5 + 2 calls, the last of them with 3 attempts and 2
\* sleeps, and returned.
C30_Witness ==
    /\ TickEnded
    /\ outcome = "returned"
    /\ QualifyingCount = 2
    /\ Len(requested) = 5 + 2
    /\ last_call.attempts = 3
    /\ last_call.sleeps = <<2, 4>>

====
